---------------------------- MODULE Spec2Model ----------------------------
(***************************************************************************)
(* Session and delegation control core of the mcp-agents server:           *)
(*   - SessionStore (src/src/session-store.ts): the session ledger,        *)
(*   - execution contexts and createChildContext (src/src/index.ts),       *)
(*   - runAgent, the delegate_to_agent handler, cancel_agent and           *)
(*     runAgentsBatch (src/src/index.ts).                                  *)
(* The Claude Agent SDK (query(), its message stream, Query.interrupt())   *)
(* is the environment: every message, stream end, stream error and         *)
(* interrupt outcome is a nondeterministic step of the engine.             *)
(***************************************************************************)
EXTENDS Integers, Sequences, FiniteSets, TLC

(***************************************************************************)
(* Bounds of the model.                                                    *)
(***************************************************************************)
\* Number of cancel() calls that may be suspended at the same time.
MaxCancels == 1
\* Number of runAgent invocations that may be in flight at the same time.
MaxInv == 2

(***************************************************************************)
(* Program constants.                                                      *)
(***************************************************************************)
MAX_DELEGATION_DEPTH == 5

(***************************************************************************)
(* Value sets.                                                             *)
(***************************************************************************)
\* Agent names that have a definition file (the registry resolves them).
RegisteredAgents == {"planner", "coder"}
\* A name the registry does not resolve.
UnknownAgents == {"ghost"}
AgentNames == RegisteredAgents \cup UnknownAgents
\* Agent names used to walk createChildContext to the depth bound.
ChainAgents == {"a1", "a2", "a3", "a4", "a5", "a6", "a7"}
\* Session ids the engine assigns; the empty string is "no session id".
Sids == {"s1", "s2"}
NoSid == ""
\* Task prompts.
Tasks == {"t1", "t2"}
\* Query handles are numbered; 0 stands for `undefined`.
NoQuery == 0
LedgerQueries == {1}

(***************************************************************************)
(* Map helpers: a JavaScript Map<string, V> whose values are records is a  *)
(* sequence of entries in insertion order (Map iteration order).           *)
(***************************************************************************)
\* Position of the entry with key sid, 0 when the Map has no such key.
IndexOf(seq, sid) ==
  IF \E k \in 1..Len(seq) : seq[k].session_id = sid
  THEN CHOOSE k \in 1..Len(seq) : seq[k].session_id = sid
  ELSE 0

RemoveAt(seq, i) == SubSeq(seq, 1, i - 1) \o SubSeq(seq, i + 1, Len(seq))

\* Map.set: an existing key keeps its position, a new key is appended.
MapSet(seq, rec) ==
  IF IndexOf(seq, rec.session_id) = 0
  THEN Append(seq, rec)
  ELSE [seq EXCEPT ![IndexOf(seq, rec.session_id)] = rec]

\* Map.delete.
MapDelete(seq, sid) ==
  IF IndexOf(seq, sid) = 0 THEN seq ELSE RemoveAt(seq, IndexOf(seq, sid))

(***************************************************************************)
(* SessionStore.  A store value is                                         *)
(*   [sessions: entries of SessionInfo, activeQueries: sid -> handle].     *)
(***************************************************************************)
EmptyStore ==
  [sessions |-> <<>>, activeQueries |-> [s \in Sids |-> NoQuery]]

has(st, sessionId) == IndexOf(st.sessions, sessionId) # 0

\* `undefined` for a SessionInfo.
NoSession ==
  [session_id |-> NoSid, agent |-> NoSid, initial_task |-> NoSid,
   created_at |-> 0, last_active |-> 0, is_active |-> FALSE]

get(st, sessionId) ==
  IF has(st, sessionId) THEN st.sessions[IndexOf(st.sessions, sessionId)]
  ELSE NoSession

\* A faulty getOrThrow(): it returns what get() returns, and never throws.
getOrThrowQuiet(st, sessionId) ==
  [threw |-> "", session |-> get(st, sessionId)]

\* getOrThrow: the record, or the code of the AgentError thrown.
getOrThrow(st, sessionId) ==
  IF ~has(st, sessionId)
  THEN [threw |-> "SESSION_NOT_FOUND", session |-> NoSession]
  ELSE [threw |-> "", session |-> get(st, sessionId)]

getQuery(st, sessionId) ==
  IF sessionId \in Sids THEN st.activeQueries[sessionId] ELSE NoQuery

isActive(st, sessionId) ==
  IF has(st, sessionId) THEN get(st, sessionId).is_active ELSE FALSE

\* A faulty save(): a record that is active stays active when it is saved
\* without a handle.
saveKeepsActive(st, sessionId, agent, task, query, now) ==
  LET rec == [session_id   |-> sessionId,
              agent        |-> agent,
              initial_task |-> IF has(st, sessionId)
                               THEN get(st, sessionId).initial_task ELSE task,
              created_at   |-> IF has(st, sessionId)
                               THEN get(st, sessionId).created_at ELSE now,
              last_active  |-> now,
              is_active    |-> \/ query # NoQuery
                               \/ isActive(st, sessionId)]
  IN [sessions      |-> MapSet(st.sessions, rec),
      activeQueries |-> IF query # NoQuery
                        THEN [st.activeQueries EXCEPT ![sessionId] = query]
                        ELSE st.activeQueries]

\* A faulty save(): the task of the latest call replaces initial_task.
saveOverwritesTask(st, sessionId, agent, task, query, now) ==
  LET rec == [session_id   |-> sessionId,
              agent        |-> agent,
              initial_task |-> task,
              created_at   |-> IF has(st, sessionId)
                               THEN get(st, sessionId).created_at ELSE now,
              last_active  |-> now,
              is_active    |-> query # NoQuery]
  IN [sessions      |-> MapSet(st.sessions, rec),
      activeQueries |-> IF query # NoQuery
                        THEN [st.activeQueries EXCEPT ![sessionId] = query]
                        ELSE st.activeQueries]

\* A faulty save(): the agent of an existing record is kept.
saveKeepsAgent(st, sessionId, agent, task, query, now) ==
  LET rec == [session_id   |-> sessionId,
              agent        |-> IF has(st, sessionId)
                               THEN get(st, sessionId).agent ELSE agent,
              initial_task |-> IF has(st, sessionId)
                               THEN get(st, sessionId).initial_task ELSE task,
              created_at   |-> IF has(st, sessionId)
                               THEN get(st, sessionId).created_at ELSE now,
              last_active  |-> now,
              is_active    |-> query # NoQuery]
  IN [sessions      |-> MapSet(st.sessions, rec),
      activeQueries |-> IF query # NoQuery
                        THEN [st.activeQueries EXCEPT ![sessionId] = query]
                        ELSE st.activeQueries]

save(st, sessionId, agent, task, query, now) ==
  LET rec == [session_id   |-> sessionId,
              agent        |-> agent,
              initial_task |-> IF has(st, sessionId)
                               THEN get(st, sessionId).initial_task ELSE task,
              created_at   |-> IF has(st, sessionId)
                               THEN get(st, sessionId).created_at ELSE now,
              last_active  |-> now,
              is_active    |-> query # NoQuery]
  IN [sessions      |-> MapSet(st.sessions, rec),
      activeQueries |-> IF query # NoQuery
                        THEN [st.activeQueries EXCEPT ![sessionId] = query]
                        ELSE st.activeQueries]

\* A faulty complete(): the record is marked inactive but the handle is
\* left in activeQueries.
completeKeepsHandle(st, sessionId, now) ==
  [sessions      |-> IF has(st, sessionId)
                     THEN MapSet(st.sessions,
                                 [get(st, sessionId) EXCEPT !.is_active = FALSE,
                                                            !.last_active = now])
                     ELSE st.sessions,
   activeQueries |-> st.activeQueries]

\* A faulty complete(): an absent session id gets an inactive record.
completeCreatesRecord(st, sessionId, now) ==
  [sessions      |-> MapSet(st.sessions,
                            IF has(st, sessionId)
                            THEN [get(st, sessionId) EXCEPT !.is_active = FALSE,
                                                            !.last_active = now]
                            ELSE [session_id   |-> sessionId,
                                  agent        |-> "planner",
                                  initial_task |-> "t1",
                                  created_at   |-> now,
                                  last_active  |-> now,
                                  is_active    |-> FALSE]),
   activeQueries |-> IF sessionId \in Sids
                     THEN [st.activeQueries EXCEPT ![sessionId] = NoQuery]
                     ELSE st.activeQueries]

complete(st, sessionId, now) ==
  [sessions      |-> IF has(st, sessionId)
                     THEN MapSet(st.sessions,
                                 [get(st, sessionId) EXCEPT !.is_active = FALSE,
                                                            !.last_active = now])
                     ELSE st.sessions,
   activeQueries |-> IF sessionId \in Sids
                     THEN [st.activeQueries EXCEPT ![sessionId] = NoQuery]
                     ELSE st.activeQueries]

remove(st, sessionId) ==
  [sessions      |-> MapDelete(st.sessions, sessionId),
   activeQueries |-> [st.activeQueries EXCEPT ![sessionId] = NoQuery]]

\* The handles clear() iterates over: activeQueries.values().
retained(st) == {st.activeQueries[s] : s \in Sids} \ {NoQuery}

\* A faulty clear(): the records are dropped, the handles are kept.
clearSessionsOnly(st) == [EmptyStore EXCEPT !.activeQueries = st.activeQueries]

clear(st) == EmptyStore

size(st) == Len(st.sessions)

activeCount(st) == Cardinality({s \in Sids : st.activeQueries[s] # NoQuery})

\* A list() filter: agent is "" when the filter names no agent (the code
\* tests `filter?.agent` for truthiness), active_only is false when absent.
NoAgent == ""
Filters == [agent : AgentNames \cup {NoAgent}, active_only : BOOLEAN]

\* A faulty insertion: the record goes before the records with the same
\* last_active (a comparator that does not keep ties in place).
InsertBeforeEquals(sorted, rec) ==
  LET before == {k \in 1..Len(sorted) :
                   sorted[k].last_active > rec.last_active}
  IN SubSeq(sorted, 1, Cardinality(before)) \o <<rec>> \o
     SubSeq(sorted, Cardinality(before) + 1, Len(sorted))

\* Array.prototype.sort with (a, b) => b.last_active - a.last_active: a
\* stable sort, descending.  rec, which followed the records of `sorted` in
\* the array, goes after every record that does not sort after it.
InsertSorted(sorted, rec) ==
  LET before == {k \in 1..Len(sorted) :
                   sorted[k].last_active >= rec.last_active}
  IN SubSeq(sorted, 1, Cardinality(before)) \o <<rec>> \o
     SubSeq(sorted, Cardinality(before) + 1, Len(sorted))

RECURSIVE SortByLastActive(_)
SortByLastActive(seq) ==
  IF seq = <<>> THEN <<>>
  ELSE InsertSorted(SortByLastActive(SubSeq(seq, 1, Len(seq) - 1)),
                    seq[Len(seq)])

\* A faulty list(): active_only is looked at only when no agent is given.
listElseIf(st, filter) ==
  LET byAgent(s)  == s.agent = filter.agent
      byActive(s) == s.is_active
  IN SortByLastActive(
       IF filter.agent # NoAgent THEN SelectSeq(st.sessions, byAgent)
       ELSE IF filter.active_only THEN SelectSeq(st.sessions, byActive)
       ELSE st.sessions)

list(st, filter) ==
  LET byAgent(s)  == s.agent = filter.agent
      byActive(s) == s.is_active
      all         == st.sessions
      agentOnly   == IF filter.agent # NoAgent
                     THEN SelectSeq(all, byAgent) ELSE all
      activeOnly  == IF filter.active_only
                     THEN SelectSeq(agentOnly, byActive) ELSE agentOnly
  IN SortByLastActive(activeOnly)

(***************************************************************************)
(* Execution contexts.                                                     *)
(***************************************************************************)
\* A faulty createDefaultContext: a root starts at depth 1.
createDefaultContextDepthOne(agentName, sessionId) ==
  [depth |-> 1, agentStack |-> <<agentName>>, rootSessionId |-> sessionId]

createDefaultContext(agentName, sessionId) ==
  [depth |-> 0, agentStack |-> <<agentName>>, rootSessionId |-> sessionId]

InStack(stack, name) == \E k \in 1..Len(stack) : stack[k] = name

\* A faulty createChildContext: the depth test is `>=` instead of `>`.
createChildContextOffByOne(parentContext, childAgentName) ==
  LET newDepth == parentContext.depth + 1
      chain    == Append(parentContext.agentStack, childAgentName)
  IN IF newDepth >= MAX_DELEGATION_DEPTH
     THEN [kind |-> "DELEGATION_DEPTH_EXCEEDED", depth |-> newDepth,
           chain |-> chain, rootSessionId |-> parentContext.rootSessionId]
     ELSE IF InStack(parentContext.agentStack, childAgentName)
     THEN [kind |-> "DELEGATION_CYCLE_DETECTED", depth |-> newDepth,
           chain |-> chain, rootSessionId |-> parentContext.rootSessionId]
     ELSE [kind |-> "ok", depth |-> newDepth,
           chain |-> chain, rootSessionId |-> parentContext.rootSessionId]

\* A faulty createChildContext: the cycle test looks at the immediate parent
\* only, not at the whole agentStack.
createChildContextParentOnly(parentContext, childAgentName) ==
  LET newDepth == parentContext.depth + 1
      chain    == Append(parentContext.agentStack, childAgentName)
      parent   == parentContext.agentStack[Len(parentContext.agentStack)]
  IN IF newDepth > MAX_DELEGATION_DEPTH
     THEN [kind |-> "DELEGATION_DEPTH_EXCEEDED", depth |-> newDepth,
           chain |-> chain, rootSessionId |-> parentContext.rootSessionId]
     ELSE IF parent = childAgentName
     THEN [kind |-> "DELEGATION_CYCLE_DETECTED", depth |-> newDepth,
           chain |-> chain, rootSessionId |-> parentContext.rootSessionId]
     ELSE [kind |-> "ok", depth |-> newDepth,
           chain |-> chain, rootSessionId |-> parentContext.rootSessionId]

\* A faulty createChildContext: the cycle is looked for before the depth.
createChildContextCycleFirst(parentContext, childAgentName) ==
  LET newDepth == parentContext.depth + 1
      chain    == Append(parentContext.agentStack, childAgentName)
  IN IF InStack(parentContext.agentStack, childAgentName)
     THEN [kind |-> "DELEGATION_CYCLE_DETECTED", depth |-> newDepth,
           chain |-> chain, rootSessionId |-> parentContext.rootSessionId]
     ELSE IF newDepth > MAX_DELEGATION_DEPTH
     THEN [kind |-> "DELEGATION_DEPTH_EXCEEDED", depth |-> newDepth,
           chain |-> chain, rootSessionId |-> parentContext.rootSessionId]
     ELSE [kind |-> "ok", depth |-> newDepth,
           chain |-> chain, rootSessionId |-> parentContext.rootSessionId]

\* A faulty createChildContext: an error reports the chain of the parent,
\* without the child that was rejected.
createChildContextChainOmitsChild(parentContext, childAgentName) ==
  LET newDepth == parentContext.depth + 1
      chain    == Append(parentContext.agentStack, childAgentName)
  IN IF newDepth > MAX_DELEGATION_DEPTH
     THEN [kind |-> "DELEGATION_DEPTH_EXCEEDED", depth |-> newDepth,
           chain |-> parentContext.agentStack,
           rootSessionId |-> parentContext.rootSessionId]
     ELSE IF InStack(parentContext.agentStack, childAgentName)
     THEN [kind |-> "DELEGATION_CYCLE_DETECTED", depth |-> newDepth,
           chain |-> parentContext.agentStack,
           rootSessionId |-> parentContext.rootSessionId]
     ELSE [kind |-> "ok", depth |-> newDepth,
           chain |-> chain, rootSessionId |-> parentContext.rootSessionId]

\* The outcome of createChildContext: the child context, or the error thrown
\* together with the chain it reports.
createChildContext(parentContext, childAgentName) ==
  LET newDepth == parentContext.depth + 1
      chain    == Append(parentContext.agentStack, childAgentName)
  IN IF newDepth > MAX_DELEGATION_DEPTH
     THEN [kind |-> "DELEGATION_DEPTH_EXCEEDED", depth |-> newDepth,
           chain |-> chain, rootSessionId |-> parentContext.rootSessionId]
     ELSE IF InStack(parentContext.agentStack, childAgentName)
     THEN [kind |-> "DELEGATION_CYCLE_DETECTED", depth |-> newDepth,
           chain |-> chain, rootSessionId |-> parentContext.rootSessionId]
     ELSE [kind |-> "ok", depth |-> newDepth,
           chain |-> chain, rootSessionId |-> parentContext.rootSessionId]

\* The `context` of the DelegationResult that the catch block of
\* handleDelegationWithContext returns.
delegationFailureContext(parentContext, targetAgent) ==
  [depth |-> parentContext.depth + 1,
   chain |-> Append(parentContext.agentStack, targetAgent)]

ChildOf(outcome) ==
  [depth |-> outcome.depth, agentStack |-> outcome.chain,
   rootSessionId |-> outcome.rootSessionId]

OkOutcome(ctx) ==
  [kind |-> "ok", depth |-> ctx.depth, chain |-> ctx.agentStack,
   rootSessionId |-> ctx.rootSessionId]

(***************************************************************************)
(* AgentRegistry (agent-registry.ts).                                      *)
(***************************************************************************)
\* What a directory may hold: at most one well-formed definition per agent
\* name, in one of two versions. `dir` tells where the file lies: "project"
\* for CWD_AGENTS_DIR, "user" for USER_AGENTS_DIR.
Descriptions == {"v1", "v2"}

DirContents(dir) ==
  UNION {{[n \in names |-> [name |-> n, description |-> d[n], dir |-> dir]] :
            d \in [names -> Descriptions]} : names \in SUBSET AgentNames}

\* loadDir: `this.agents.set(config.name, config)` for every file of the
\* directory.
loadDir(agents, files) ==
  [n \in DOMAIN agents \cup DOMAIN files |->
     IF n \in DOMAIN files THEN files[n] ELSE agents[n]]

\* loadFromMultiple(dirs): the map is cleared, then the directories are
\* loaded in the order given.
RECURSIVE loadInto(_, _)
loadInto(agents, dirs) ==
  IF Len(dirs) = 0 THEN agents
  ELSE loadInto(loadDir(agents, Head(dirs)), Tail(dirs))

loadFromMultiple(dirs) == loadInto(<<>>, dirs)

\* The directories as the servers of the other sections find them: every
\* registered agent is defined in the project directory alone.
StartupDirs ==
  <<[n \in RegisteredAgents |->
       [name |-> n, description |-> "v1", dir |-> "project"]],
    <<>>>>

(***************************************************************************)
(* Invocations of runAgent.                                                *)
(***************************************************************************)
\* `undefined` for an ExecutionContext.
NoCtx == [depth |-> -1, agentStack |-> <<>>, rootSessionId |-> NoSid]

\* `undefined` for the errorMessage local of runAgent; every message onError
\* is handed is a non-empty string.
NoError == ""

\* The result events the engine has emitted on a stream so far: whether a
\* success and a failure event were among them, and the text of the latest
\* success event.
NoEvents == [success |-> FALSE, failure |-> FALSE, text |-> ""]

\* An unused invocation slot.
FreeInv ==
  [pc |-> "free", agent |-> "", task |-> "", resume |-> NoSid, fork |-> FALSE,
   parent |-> 0, batchIx |-> 0, sessionId |-> NoSid, executionContext |-> NoCtx,
   result |-> "", errorMessage |-> NoError, seen |-> NoEvents]

\* An empty Map<string, ExecutionContext>.
NoContexts == [s \in {} |-> NoCtx]

MapPut(m, key, value) ==
  [k \in DOMAIN m \cup {key} |-> IF k = key THEN value ELSE m[k]]

MapDrop(m, key) == [k \in DOMAIN m \ {key} |-> m[k]]

(***************************************************************************)
(* State.                                                                  *)
(***************************************************************************)
VARIABLES
  \* Delegation-context walk: the context held, the last root/descend call
  \* with its outcome, and the number of delegation hops actually taken.
  dctx, dres, hops,
  \* The SessionStore instance (sessions and activeQueries).
  sessionStore,
  \* The value `new Date()` returns.
  now,
  \* The cancel() calls suspended at `await query.interrupt()`.
  cancels,
  \* The interrupt() calls clear() has made: pairs <<handle, state>> with the
  \* state of the latest promise, "pending", "resolved" or "rejected".
  interrupts,
  \* What the last call that returned to its caller returned: the boolean of
  \* cancel()/remove(); the success, summary and session_id of an AgentResult;
  \* the code of the error a rejected run or delegation threw.
  ret,
  \* The runAgent invocations in flight; the Query handle of the invocation
  \* in slot i is i.
  inv,
  \* The global executionContexts map of index.ts.
  executionContexts,
  \* The runAgentsBatch call.
  batch,
  \* The AgentRegistry instance: the agents map, and what the directories it
  \* was last loaded from held when they were read.
  registry,
  \* The loadFromMultiple call in progress: the directories it has yet to
  \* read.
  reload

ctxVars == <<dctx, dres, hops>>
ledgerVars == <<sessionStore, now, cancels, interrupts, ret>>
sysVars == <<inv, executionContexts, batch>>
regVars == <<registry, reload>>
vars == <<dctx, dres, hops, sessionStore, now, cancels, interrupts, ret, inv,
          executionContexts, batch, registry, reload>>

(***************************************************************************)
(* Initial values, per group of variables.                                 *)
(***************************************************************************)
IdleCancel == [pc |-> "idle", sid |-> NoSid, query |-> NoQuery]
NoRet == [op |-> "none", val |-> FALSE, code |-> "", sid |-> NoSid]
IdleBatch == [pc |-> "idle", tasks |-> <<>>, promises |-> <<>>, result |-> <<>>]

CtxIdle ==
  /\ dctx = createDefaultContext("a1", NoSid)
  /\ dres = [op |-> "root", parent |-> createDefaultContext("a1", NoSid),
             child |-> "a1", hopsBefore |-> 0,
             outcome |-> OkOutcome(createDefaultContext("a1", NoSid))]
  /\ hops = 0

LedgerInit ==
  /\ sessionStore = EmptyStore
  /\ now = 0
  /\ cancels = [c \in 1..MaxCancels |-> IdleCancel]
  /\ interrupts = {}
  /\ ret = NoRet

SysIdle ==
  /\ inv = [i \in 1..MaxInv |-> FreeInv]
  /\ executionContexts = NoContexts
  /\ batch = IdleBatch

\* The registry of the servers modelled above: every registered agent is
\* defined once, in the project directory.
IdleReload == [pc |-> "idle", pending |-> <<>>]

RegIdle ==
  /\ registry = [agents |-> loadFromMultiple(StartupDirs), dirs |-> StartupDirs]
  /\ reload = IdleReload

(***************************************************************************)
(* Delegation-context walk: root and descend applied repeatedly.           *)
(***************************************************************************)
CtxRootSids == {NoSid, "s1"}

\* createDefaultContext(agent, sid): a fresh root.
Root(agent, sid) ==
  /\ dctx' = createDefaultContext(agent, sid)
  /\ dres' = [op |-> "root", parent |-> createDefaultContext(agent, sid),
              child |-> agent, hopsBefore |-> 0,
              outcome |-> OkOutcome(createDefaultContext(agent, sid))]
  /\ hops' = 0
  /\ UNCHANGED <<regVars, ledgerVars, sysVars>>

\* createChildContext(dctx, child): on success the walk moves to the child,
\* on a throw it stays at the parent.
Descend(child) ==
  LET outcome == createChildContext(dctx, child)
  IN /\ dres' = [op |-> "descend", parent |-> dctx, child |-> child,
                 hopsBefore |-> hops, outcome |-> outcome]
     /\ dctx' = IF outcome.kind = "ok" THEN ChildOf(outcome) ELSE dctx
     /\ hops' = IF outcome.kind = "ok" THEN hops + 1 ELSE hops
     /\ UNCHANGED <<regVars, ledgerVars, sysVars>>

InitCtx ==
  /\ \E agent \in ChainAgents, sid \in CtxRootSids :
        /\ dctx = createDefaultContext(agent, sid)
        /\ dres = [op |-> "root", parent |-> createDefaultContext(agent, sid),
                   child |-> agent, hopsBefore |-> 0,
                   outcome |-> OkOutcome(createDefaultContext(agent, sid))]
  /\ hops = 0
  /\ LedgerInit
  /\ SysIdle
  /\ RegIdle

NextCtx ==
  \/ \E agent \in ChainAgents, sid \in CtxRootSids : Root(agent, sid)
  \/ \E child \in ChainAgents : Descend(child)

SpecCtx == InitCtx /\ [][NextCtx]_vars

(***************************************************************************)
(* The SessionStore driven directly through its public methods, as its     *)
(* unit tests drive it: any method, any argument, in any order.            *)
(***************************************************************************)
\* The lowest free cancel slot, 0 when MaxCancels calls are suspended.
FreeCancel ==
  IF \E c \in 1..MaxCancels : cancels[c].pc = "idle"
  THEN CHOOSE c \in 1..MaxCancels :
         /\ cancels[c].pc = "idle"
         /\ \A d \in 1..(c - 1) : cancels[d].pc # "idle"
  ELSE 0

\* Largest value the modelled clock reaches.
MaxClock == 2

\* Time passes between two calls.
Tick ==
  /\ now < MaxClock
  /\ now' = now + 1
  /\ UNCHANGED <<ctxVars, regVars, sysVars, sessionStore, cancels, interrupts, ret>>

\* store.save(sessionId, agent, task, query?)
StoreSave(sessionId, agent, task, query) ==
  /\ sessionStore' = save(sessionStore, sessionId, agent, task, query, now)
  /\ UNCHANGED <<ctxVars, regVars, sysVars, now, cancels, interrupts, ret>>

\* store.complete(sessionId)
StoreComplete(sessionId) ==
  /\ sessionStore' = complete(sessionStore, sessionId, now)
  /\ UNCHANGED <<ctxVars, regVars, sysVars, now, cancels, interrupts, ret>>

\* store.remove(sessionId)
StoreRemove(sessionId) ==
  /\ sessionStore' = remove(sessionStore, sessionId)
  /\ ret' = [op |-> "remove", val |-> has(sessionStore, sessionId),
             code |-> "", sid |-> NoSid]
  /\ UNCHANGED <<ctxVars, regVars, sysVars, now, cancels, interrupts>>

\* store.clear(): the loop calls interrupt() on every value of activeQueries and
\* attaches an empty catch handler to the promise, without awaiting it; then
\* both maps are emptied.  The whole method runs in one turn.
StoreClear ==
  /\ interrupts' =
       {p \in interrupts : p[1] \notin retained(sessionStore)}
         \cup {<<query, "pending">> : query \in retained(sessionStore)}
  /\ sessionStore' = clear(sessionStore)
  /\ UNCHANGED <<ctxVars, regVars, sysVars, now, cancels, ret>>

\* The promise of an interrupt() that clear() invoked settles.  The handler
\* `.catch(() => {})` is empty: a rejection changes nothing but the promise.
ClearInterruptSettle(query, outcome) ==
  /\ <<query, "pending">> \in interrupts
  /\ interrupts' = (interrupts \ {<<query, "pending">>}) \cup {<<query, outcome>>}
  /\ UNCHANGED <<ctxVars, regVars, sysVars, sessionStore, now, cancels, ret>>

\* A faulty cancel(): complete() is called before the handle is looked up,
\* so the call without a handle touches the record.
CancelCallCompletesFirst(sessionId) ==
  IF getQuery(sessionStore, sessionId) # NoQuery
  THEN /\ FreeCancel # 0
       /\ cancels' = [cancels EXCEPT ![FreeCancel] =
                        [pc |-> "awaiting", sid |-> sessionId,
                         query |-> getQuery(sessionStore, sessionId)]]
       /\ UNCHANGED <<ctxVars, regVars, sysVars, sessionStore, now, ret, interrupts>>
  ELSE /\ ret' = [op |-> "cancel", val |-> FALSE, code |-> "",
                  sid |-> sessionId]
       /\ sessionStore' = complete(sessionStore, sessionId, now)
       /\ UNCHANGED <<ctxVars, regVars, sysVars, now, cancels, interrupts>>

\* store.cancel(sessionId), from the call to its `return false` or to its
\* suspension at `await query.interrupt()`; the cancel_agent tool replies
\* with success = the boolean cancel() returns.
CancelCall(sessionId) ==
  IF getQuery(sessionStore, sessionId) # NoQuery
  THEN /\ FreeCancel # 0
       /\ cancels' = [cancels EXCEPT ![FreeCancel] =
                        [pc |-> "awaiting", sid |-> sessionId,
                         query |-> getQuery(sessionStore, sessionId)]]
       /\ UNCHANGED <<ctxVars, regVars, sysVars, sessionStore, now, ret, interrupts>>
  ELSE /\ ret' = [op |-> "cancel", val |-> FALSE, code |-> "",
                  sid |-> sessionId]
       /\ UNCHANGED <<ctxVars, regVars, sysVars, sessionStore, now, cancels, interrupts>>

\* The engine settles the promise of interrupt(): it resolves or rejects.
InterruptSettle(c, outcome) ==
  /\ cancels[c].pc = "awaiting"
  /\ cancels' = [cancels EXCEPT ![c].pc = outcome]
  /\ UNCHANGED <<ctxVars, regVars, sysVars, sessionStore, now, ret, interrupts>>

\* store.cancel resumed after the await: the try branch (interrupt resolved)
\* and the catch branch (interrupt rejected, the failure is logged) both
\* complete the session and return true.
CancelResume(c) ==
  /\ cancels[c].pc \in {"resolved", "rejected"}
  /\ sessionStore' = complete(sessionStore, cancels[c].sid, now)
  /\ cancels' = [cancels EXCEPT ![c] = IdleCancel]
  /\ ret' = [op |-> "cancel", val |-> TRUE,
             code |-> IF cancels[c].pc = "rejected"
                      THEN "INTERRUPT_FAILED" ELSE "",
             sid |-> cancels[c].sid]
  /\ UNCHANGED <<ctxVars, regVars, sysVars, now, interrupts>>

InitLedger == CtxIdle /\ LedgerInit /\ SysIdle /\ RegIdle

NextLedger ==
  \/ \E sid \in Sids, agent \in RegisteredAgents, task \in Tasks,
        query \in LedgerQueries \cup {NoQuery} :
        StoreSave(sid, agent, task, query)
  \/ \E sid \in Sids : StoreComplete(sid)
  \/ \E sid \in Sids : StoreRemove(sid)
  \/ StoreClear
  \/ \E sid \in Sids : CancelCall(sid)
  \/ \E c \in 1..MaxCancels, outcome \in {"resolved", "rejected"} :
        InterruptSettle(c, outcome)
  \/ \E c \in 1..MaxCancels : CancelResume(c)

SpecLedger == InitLedger /\ [][NextLedger]_vars

\* The same store while time passes between the calls.
NextClock ==
  \/ Tick
  \/ \E sid \in Sids, query \in LedgerQueries \cup {NoQuery} :
        StoreSave(sid, "planner", "t1", query)
  \/ \E sid \in Sids : StoreComplete(sid)
  \/ \E sid \in Sids : CancelCall(sid)
  \/ \E c \in 1..MaxCancels, outcome \in {"resolved", "rejected"} :
        InterruptSettle(c, outcome)
  \/ \E c \in 1..MaxCancels : CancelResume(c)

SpecClock == InitLedger /\ [][NextClock]_vars

\* cancel() under a fair scheduler: a cancel() whose await has settled is
\* resumed.  Nothing obliges the engine to settle the promise of interrupt().
SpecLedgerFair == SpecLedger /\ WF_vars(\E c \in 1..MaxCancels : CancelResume(c))

\* The life of one session record that is never removed: it is saved (by a
\* first run, then by resumes with other agents and tasks), completed and
\* cancelled while time passes.
NextRecord ==
  \/ Tick
  \/ \E agent \in RegisteredAgents, task \in Tasks,
        query \in LedgerQueries \cup {NoQuery} :
        StoreSave("s1", agent, task, query)
  \/ StoreComplete("s1")
  \/ CancelCall("s1")
  \/ \E c \in 1..MaxCancels, outcome \in {"resolved", "rejected"} :
        InterruptSettle(c, outcome)
  \/ \E c \in 1..MaxCancels : CancelResume(c)

SpecRecord == InitLedger /\ [][NextRecord]_vars

\* Sequences of save and complete calls only.
NextSaveComplete ==
  \/ \E sid \in Sids, agent \in RegisteredAgents, task \in Tasks,
        query \in LedgerQueries \cup {NoQuery} :
        StoreSave(sid, agent, task, query)
  \/ \E sid \in Sids : StoreComplete(sid)

SpecSaveComplete == InitLedger /\ [][NextSaveComplete]_vars

\* Callers that probe the store: every method on ids that are present or
\* absent, the records being those of one agent and one task.
NextProbe ==
  \/ \E sid \in Sids, query \in LedgerQueries \cup {NoQuery} :
        StoreSave(sid, "planner", "t1", query)
  \/ \E sid \in Sids : StoreComplete(sid)
  \/ \E sid \in Sids : StoreRemove(sid)
  \/ StoreClear
  \/ \E sid \in Sids : CancelCall(sid)
  \/ \E c \in 1..MaxCancels, outcome \in {"resolved", "rejected"} :
        InterruptSettle(c, outcome)
  \/ \E c \in 1..MaxCancels : CancelResume(c)

SpecProbe == InitLedger /\ [][NextProbe]_vars

\* The ledger with two distinct handles, cleared while handles are retained,
\* each interrupt() promise settling either way afterwards.
ClearQueries == {1, 2}

NextClear ==
  \/ \E sid \in Sids, query \in ClearQueries \cup {NoQuery} :
        StoreSave(sid, "planner", "t1", query)
  \/ \E sid \in Sids : StoreComplete(sid)
  \/ StoreClear
  \/ \E query \in ClearQueries, outcome \in {"resolved", "rejected"} :
        ClearInterruptSettle(query, outcome)

SpecClear == InitLedger /\ [][NextClear]_vars

(***************************************************************************)
(* runAgent (index.ts): validation, the message loop, cleanup.             *)
(***************************************************************************)
\* The lowest free invocation slot, 0 when MaxInv invocations are running.
NextInv ==
  IF \E i \in 1..MaxInv : inv[i].pc = "free"
  THEN CHOOSE i \in 1..MaxInv :
         /\ inv[i].pc = "free"
         /\ \A j \in 1..(i - 1) : inv[j].pc # "free"
  ELSE 0

\* A faulty validation: the resume id is not looked up in the ledger.
validateRunSkipsLookup(st, agent, resume) ==
  IF agent \notin RegisteredAgents THEN "AGENT_NOT_FOUND"
  ELSE IF resume # NoSid /\ isActive(st, resume) THEN "SESSION_ALREADY_ACTIVE"
  ELSE ""

\* A faulty validation: a resume of an active session is let through.
validateRunSkipsActive(st, agent, resume) ==
  IF agent \notin RegisteredAgents THEN "AGENT_NOT_FOUND"
  ELSE IF resume # NoSid /\ ~has(st, resume) THEN "SESSION_NOT_FOUND"
  ELSE ""

\* The checks runAgent makes before it calls the engine: the code of the
\* AgentError thrown, or "" when the run may start.
validateRun(st, agent, resume) ==
  IF agent \notin RegisteredAgents THEN "AGENT_NOT_FOUND"
  ELSE IF resume # NoSid /\ ~has(st, resume) THEN "SESSION_NOT_FOUND"
  ELSE IF resume # NoSid /\ isActive(st, resume) THEN "SESSION_ALREADY_ACTIVE"
  ELSE ""

\* runAgent from `query({prompt, options})` on: the locals of the invocation.
NewInv(agent, task, resume, fork, context, parent, batchIx) ==
  [pc |-> "running", agent |-> agent, task |-> task, resume |-> resume,
   fork |-> fork, parent |-> parent, batchIx |-> batchIx, sessionId |-> NoSid,
   executionContext |-> context, result |-> "", errorMessage |-> NoError,
   seen |-> NoEvents]

\* errors.join('; ')
RECURSIVE Join(_)
Join(errors) ==
  IF Len(errors) = 0 THEN ""
  ELSE IF Len(errors) = 1 THEN errors[1]
  ELSE errors[1] \o "; " \o Join(Tail(errors))

\* processMessage on a result message that is not a success: the string
\* handed to onError, `errors.join('; ') || message.subtype`.
errorText(errors, subtype) ==
  IF Join(errors) # "" THEN Join(errors) ELSE subtype

\* A faulty return: the error is reported only when there is no result text.
agentResultErrorYields(r) ==
  [success |-> r.errorMessage = NoError \/ r.result # "",
   session_id |-> r.sessionId,
   summary |-> IF r.result # "" THEN r.result
               ELSE IF r.errorMessage # NoError
               THEN "Error: " \o r.errorMessage ELSE "No result",
   error   |-> r.errorMessage]

\* A faulty return: a run without a result text is not a success.
agentResultNeedsResult(r) ==
  [success |-> r.errorMessage = NoError /\ r.result # "",
   session_id |-> r.sessionId,
   summary |-> IF r.result # "" THEN r.result
               ELSE IF r.errorMessage # NoError
               THEN "Error: " \o r.errorMessage ELSE "No result",
   error   |-> r.errorMessage]

\* The AgentResult of the return after the loop.
agentResult(r) ==
  [success |-> r.errorMessage = NoError, session_id |-> r.sessionId,
   summary |-> IF r.result # "" THEN r.result
               ELSE IF r.errorMessage # NoError
               THEN "Error: " \o r.errorMessage ELSE "No result",
   error   |-> r.errorMessage]

\* A faulty catch block: the session id established before the error is
\* not reported.
agentFailureDropsSession(r, errMsg) ==
  [success |-> FALSE, session_id |-> "unknown",
   summary |-> "Agent execution failed: " \o errMsg, error |-> errMsg]

\* The AgentResult of the return of the catch block.
agentFailure(r, errMsg) ==
  [success |-> FALSE,
   session_id |-> IF r.sessionId # NoSid THEN r.sessionId ELSE "unknown",
   summary |-> "Agent execution failed: " \o errMsg, error |-> errMsg]

\* The session id the engine puts in its init message: the resumed id for a
\* resume without fork, otherwise an id it has never used.
FreshSid ==
  IF ~has(sessionStore, "s1") THEN "s1"
  ELSE IF ~has(sessionStore, "s2") THEN "s2"
  ELSE NoSid

EngineSessionId(i) ==
  IF inv[i].resume # NoSid /\ ~inv[i].fork THEN inv[i].resume ELSE FreshSid

\* The context runAgent registers at the init message.
initContext(r, sessionId) ==
  IF r.executionContext = NoCtx
  THEN createDefaultContext(r.agent, sessionId)
  ELSE IF r.executionContext.rootSessionId = NoSid
  THEN [r.executionContext EXCEPT !.rootSessionId = sessionId]
  ELSE r.executionContext

\* A faulty cleanup: the context of the session is not deleted.
cleanupContextsKeeps(m, sessionId) == m

\* The cleanup of both exit paths: `if (sessionId) { delete; complete }`.
cleanupContexts(m, sessionId) ==
  IF sessionId # NoSid THEN MapDrop(m, sessionId) ELSE m

\* A faulty cleanup: the session is removed from the ledger, not completed.
cleanupStoreRemoves(st, sessionId, t) ==
  IF sessionId # NoSid THEN remove(st, sessionId) ELSE st

cleanupStore(st, sessionId, t) ==
  IF sessionId # NoSid THEN complete(st, sessionId, t) ELSE st

Digit == <<"0", "1", "2", "3", "4", "5", "6", "7", "8", "9">>

\* The decimal numeral of n, as a template literal renders a number.
RECURSIVE decimal(_)
decimal(n) ==
  IF n < 10 THEN Digit[n + 1]
  ELSE decimal(n \div 10) \o Digit[(n % 10) + 1]

\* A faulty label: positions are counted from 1.
taskIdOneBased(task, index) ==
  IF "id" \in DOMAIN task /\ task.id # ""
  THEN task.id
  ELSE "task-" \o decimal(index + 1)

\* `task.id || \`task-${index}\``: a task without an id field, or with a
\* falsy (empty) id, is labelled by its 0-based position.
taskId(task, index) ==
  IF "id" \in DOMAIN task /\ task.id # ""
  THEN task.id
  ELSE "task-" \o decimal(index)

\* The catch block of a batch task: the exception becomes a failed result.
batchTaskCatch(task, index, code) ==
  [state |-> "fulfilled", index |-> index, id |-> taskId(task, index),
   success |-> FALSE, session_id |-> "failed", error |-> code]

\* The try block of a batch task, after `await runAgent(...)`.
batchTaskResult(task, index, res) ==
  [state |-> "fulfilled", index |-> index, id |-> taskId(task, index),
   success |-> res.success, session_id |-> res.session_id,
   error |-> IF res.success THEN "" ELSE "EXECUTION_FAILED"]

PendingTask(index) ==
  [state |-> "pending", index |-> index, success |-> FALSE,
   session_id |-> NoSid, error |-> ""]

\* What the caller awaiting invocation r does with its AgentResult res: a
\* batch task settles its promise; the run_agent tool and the delegation
\* handler hand the result on.
settleBatch(b, r, res) ==
  IF r.batchIx = 0 THEN b
  ELSE [b EXCEPT !.promises[r.batchIx] =
                 batchTaskResult(b.tasks[r.batchIx], r.batchIx - 1, res)]

handResult(old, r, res) ==
  IF r.batchIx # 0 THEN old
  ELSE [op |-> IF r.parent = 0 /\ r.executionContext.depth <= 0
               THEN "run_agent" ELSE "delegate_to_agent",
        val |-> res.success, code |-> res.summary, sid |-> res.session_id]

\* A faulty return: the end of a delegated run also ends the run of the
\* agent that delegated to it.
releaseAbortsParent(i) ==
  [j \in 1..MaxInv |->
     IF j = i \/ j = inv[i].parent THEN FreeInv
     ELSE IF inv[j].parent = i THEN [inv[j] EXCEPT !.parent = 0]
     ELSE inv[j]]

\* The invocation table once invocation i has returned: its slot is free,
\* and the invocations it delegated to are no longer nested in a live call.
release(i) ==
  [j \in 1..MaxInv |->
     IF j = i THEN FreeInv
     ELSE IF inv[j].parent = i THEN [inv[j] EXCEPT !.parent = 0]
     ELSE inv[j]]

\* The run_agent tool: a root call of runAgent.
RunAgentTool(agent, task, resume, fork) ==
  IF validateRun(sessionStore, agent, resume) # ""
  THEN /\ ret' = [op |-> "run_agent", val |-> FALSE,
                  code |-> validateRun(sessionStore, agent, resume),
                  sid |-> NoSid]
       /\ UNCHANGED <<ctxVars, regVars, sysVars, sessionStore, now, cancels, interrupts>>
  ELSE /\ NextInv # 0
       /\ inv' = [inv EXCEPT ![NextInv] =
                    NewInv(agent, task, resume, fork, NoCtx, 0, 0)]
       /\ UNCHANGED <<ctxVars, regVars, ledgerVars, executionContexts, batch>>

\* A faulty init handler: a resumed run is saved under the id it resumed,
\* whatever id the init message carries.
OnInitSavesResume(i) ==
  /\ inv[i].pc = "running"
  /\ inv[i].sessionId = NoSid
  /\ EngineSessionId(i) # NoSid
  /\ inv' = [inv EXCEPT
       ![i].sessionId = EngineSessionId(i),
       ![i].executionContext = initContext(inv[i], EngineSessionId(i))]
  /\ executionContexts' = MapPut(executionContexts, EngineSessionId(i),
                                 initContext(inv[i], EngineSessionId(i)))
  /\ sessionStore' = save(sessionStore,
                          IF inv[i].resume # NoSid THEN inv[i].resume
                          ELSE EngineSessionId(i),
                          inv[i].agent, inv[i].task, i, now)
  /\ UNCHANGED <<ctxVars, regVars, now, cancels, interrupts, ret, batch>>

\* The engine emits {type: 'system', subtype: 'init', session_id}.
OnInit(i) ==
  /\ inv[i].pc = "running"
  /\ inv[i].sessionId = NoSid
  /\ EngineSessionId(i) # NoSid
  /\ inv' = [inv EXCEPT
       ![i].sessionId = EngineSessionId(i),
       ![i].executionContext = initContext(inv[i], EngineSessionId(i))]
  /\ executionContexts' = MapPut(executionContexts, EngineSessionId(i),
                                 initContext(inv[i], EngineSessionId(i)))
  /\ sessionStore' = save(sessionStore, EngineSessionId(i), inv[i].agent,
                          inv[i].task, i, now)
  /\ UNCHANGED <<ctxVars, regVars, now, cancels, interrupts, ret, batch>>

\* The engine emits a further init message, carrying session_id, on a stream
\* that has already emitted one: the init branch of the loop and the onInit
\* handler run again.
OnInitAgain(i, session_id) ==
  /\ inv[i].pc = "running"
  /\ inv[i].sessionId # NoSid
  /\ inv' = [inv EXCEPT
       ![i].sessionId = session_id,
       ![i].executionContext = initContext(inv[i], session_id)]
  /\ executionContexts' = MapPut(executionContexts, session_id,
                                 initContext(inv[i], session_id))
  /\ sessionStore' = save(sessionStore, session_id, inv[i].agent,
                          inv[i].task, i, now)
  /\ UNCHANGED <<ctxVars, regVars, now, cancels, interrupts, ret, batch>>

\* The engine emits {type: 'result', subtype: 'success', result: text}.
OnResult(i, text) ==
  /\ inv[i].pc = "running"
  /\ inv[i].sessionId # NoSid
  /\ inv' = [inv EXCEPT ![i].result = text,
                         ![i].seen.success = TRUE,
                         ![i].seen.text = text]
  /\ UNCHANGED <<ctxVars, regVars, ledgerVars, executionContexts, batch>>

\* The engine emits {type: 'result', subtype, errors} with an error subtype.
OnError(i, errors, subtype) ==
  /\ inv[i].pc = "running"
  /\ inv[i].sessionId # NoSid
  /\ inv' = [inv EXCEPT ![i].errorMessage = errorText(errors, subtype),
                         ![i].seen.failure = TRUE]
  /\ UNCHANGED <<ctxVars, regVars, ledgerVars, executionContexts, batch>>

\* The stream ends: cleanup, then the return after the loop.
StreamEnd(i) ==
  /\ inv[i].pc = "running"
  /\ inv' = release(i)
  /\ executionContexts' = cleanupContexts(executionContexts, inv[i].sessionId)
  /\ sessionStore' = cleanupStore(sessionStore, inv[i].sessionId, now)
  /\ batch' = settleBatch(batch, inv[i], agentResult(inv[i]))
  /\ ret' = handResult(ret, inv[i], agentResult(inv[i]))
  /\ UNCHANGED <<ctxVars, regVars, now, cancels, interrupts>>

\* query() or the stream throws an Error with message errMsg: cleanup, then
\* the return of the catch block.
StreamThrow(i, errMsg) ==
  /\ inv[i].pc = "running"
  /\ inv' = release(i)
  /\ executionContexts' = cleanupContexts(executionContexts, inv[i].sessionId)
  /\ sessionStore' = cleanupStore(sessionStore, inv[i].sessionId, now)
  /\ batch' = settleBatch(batch, inv[i], agentFailure(inv[i], errMsg))
  /\ ret' = handResult(ret, inv[i], agentFailure(inv[i], errMsg))
  /\ UNCHANGED <<ctxVars, regVars, now, cancels, interrupts>>

(***************************************************************************)
(* delegate_to_agent (index.ts): the tool handler, handleDelegation and    *)
(* handleDelegationWithContext.                                            *)
(***************************************************************************)
\* A faulty handleDelegation: a caller without a registered context is
\* taken to be at the depth limit, so that its delegation is rejected.
handleDelegationNoFallback(m, parentSessionId) ==
  IF parentSessionId \in DOMAIN m
  THEN m[parentSessionId]
  ELSE [depth |-> MAX_DELEGATION_DEPTH, agentStack |-> <<"unknown">>,
        rootSessionId |-> parentSessionId]

\* handleDelegation: the parent context found for the session id the tool
\* handler was given, or the temporary root context used when none is found.
handleDelegation(m, parentSessionId) ==
  IF parentSessionId \in DOMAIN m
  THEN m[parentSessionId]
  ELSE createDefaultContext("unknown", parentSessionId)

\* The session ids the SDK may hand to the tool handler in `extra`: the
\* calling session's id, or none (the handler then uses '').
ExtraSessionIds(i) == {inv[i].sessionId, NoSid}

\* The agent of running invocation i calls delegate_to_agent(target, task).
Delegate(i, target, task, parentSessionId) ==
  LET parentContext == handleDelegation(executionContexts, parentSessionId)
      outcome       == createChildContext(parentContext, target)
      code          == IF outcome.kind # "ok" THEN outcome.kind
                       ELSE validateRun(sessionStore, target, NoSid)
  IN /\ inv[i].pc = "running"
     /\ inv[i].sessionId # NoSid
     /\ parentSessionId \in ExtraSessionIds(i)
     /\ IF code # ""
        THEN /\ ret' = [op |-> "delegate_to_agent", val |-> FALSE,
                        code |-> code, sid |-> NoSid]
             /\ UNCHANGED <<ctxVars, regVars, sysVars, sessionStore, now, cancels, interrupts>>
        ELSE /\ NextInv # 0
             /\ inv' = [inv EXCEPT ![NextInv] =
                          NewInv(target, task, NoSid, FALSE, ChildOf(outcome),
                                 i, 0)]
             /\ UNCHANGED <<ctxVars, regVars, ledgerVars, executionContexts, batch>>

(***************************************************************************)
(* runAgentsBatch (index.ts).                                              *)
(***************************************************************************)
\* Number of tasks a modelled batch may hold.
MaxTasks == 2

TaskSpecs == [agent : AgentNames, task : {"t1"}]
BatchInputs == UNION {[1..n -> TaskSpecs] : n \in 1..MaxTasks}

\* A faulty wait: Promise.race in place of Promise.all.
promiseRace(promises) ==
  IF \E k \in 1..Len(promises) : promises[k].state = "fulfilled"
  THEN "fulfilled"
  ELSE "pending"

\* Promise.all over the task promises.
promiseAll(promises) ==
  IF \E k \in 1..Len(promises) : promises[k].state = "rejected"
  THEN "rejected"
  ELSE IF \A k \in 1..Len(promises) : promises[k].state = "fulfilled"
  THEN "fulfilled"
  ELSE "pending"

\* A faulty aggregation: all_success is true as soon as one task succeeded.
batchResultAnySuccess(results) ==
  LET succeeded == Cardinality({k \in 1..Len(results) : results[k].success})
      failed    == Cardinality({k \in 1..Len(results) : ~results[k].success})
  IN [all_success |-> succeeded > 0, succeeded |-> succeeded,
      failed |-> failed, results |-> results]

\* A faulty aggregation: the entries of the failed tasks are left out.
batchResultDropsFailed(results) ==
  LET succeeded == Cardinality({k \in 1..Len(results) : results[k].success})
      failed    == Cardinality({k \in 1..Len(results) : ~results[k].success})
      kept(r)   == r.success
  IN [all_success |-> failed = 0, succeeded |-> succeeded, failed |-> failed,
      results |-> SelectSeq(results, kept)]

\* The BatchResult built from the settled task results.
batchResult(results) ==
  LET succeeded == Cardinality({k \in 1..Len(results) : results[k].success})
      failed    == Cardinality({k \in 1..Len(results) : ~results[k].success})
  IN [all_success |-> failed = 0, succeeded |-> succeeded, failed |-> failed,
      results |-> results]

\* The run_agents_batch tool: tasks.map(async ...) runs every task up to its
\* first await, so every runAgent is validated and started within the call.
RunBatchTool(tasks) ==
  LET valid(k) == validateRun(sessionStore, tasks[k].agent, NoSid) = ""
      rank(k)  == Cardinality({j \in 1..k : valid(j)})
      nValid   == rank(Len(tasks))
      free     == {i \in 1..MaxInv : inv[i].pc = "free"}
      slot(k)  == CHOOSE i \in free :
                    Cardinality({j \in free : j <= i}) = rank(k)
  IN /\ batch.pc = "idle"
     /\ nValid <= Cardinality(free)
     /\ inv' = [i \in 1..MaxInv |->
          IF \E k \in 1..Len(tasks) : valid(k) /\ slot(k) = i
          THEN LET k == CHOOSE k \in 1..Len(tasks) : valid(k) /\ slot(k) = i
               IN NewInv(tasks[k].agent, tasks[k].task, NoSid, FALSE, NoCtx,
                         0, k)
          ELSE inv[i]]
     /\ batch' = [pc |-> "waiting", tasks |-> tasks,
                  promises |-> [k \in 1..Len(tasks) |->
                     IF valid(k) THEN PendingTask(k - 1)
                     ELSE batchTaskCatch(tasks[k], k - 1,
                            validateRun(sessionStore, tasks[k].agent, NoSid))],
                  result |-> batchResult(<<>>)]
     /\ UNCHANGED <<ctxVars, regVars, ledgerVars, executionContexts>>

\* `await Promise.all(taskPromises)` resumes: the BatchResult is built, or
\* the rejection of a task promise is thrown on.
BatchFinish ==
  /\ batch.pc = "waiting"
  /\ promiseAll(batch.promises) # "pending"
  /\ batch' = IF promiseAll(batch.promises) = "rejected"
              THEN [batch EXCEPT !.pc = "rejected"]
              ELSE [batch EXCEPT !.pc = "done",
                                 !.result = batchResult(batch.promises)]
  /\ UNCHANGED <<ctxVars, regVars, ledgerVars, inv, executionContexts>>

\* The largest batch the run_agents_batch tool accepts.
MAX_BATCH_TASKS == 10

\* The code of the error response the CallTool handler builds: the code of
\* an AgentError, 'UNKNOWN_ERROR' for any other error.
errorCode(isAgentError, code) ==
  IF isAgentError THEN code ELSE "UNKNOWN_ERROR"

\* The run_agents_batch case of the CallTool handler: an empty or oversized
\* task list throws a plain Error, which the handler's catch turns into an
\* error response; any other list is handed to runAgentsBatch.
BatchToolCall(tasks) ==
  IF Len(tasks) = 0 \/ Len(tasks) > MAX_BATCH_TASKS
  THEN /\ ret' = [op |-> "run_agents_batch", val |-> FALSE,
                  code |-> errorCode(FALSE, ""), sid |-> NoSid]
       /\ UNCHANGED <<ctxVars, regVars, sysVars, sessionStore, now, cancels, interrupts>>
  ELSE RunBatchTool(tasks)

\* Task lists of every length from none to one more than the tool accepts,
\* all for one agent.
BatchToolInputs ==
  {[k \in 1..n |-> [agent |-> a, task |-> "t1"]] :
     n \in 0..(MAX_BATCH_TASKS + 1), a \in {"planner", "ghost"}}

(***************************************************************************)
(* The server.  Tool calls arrive in any order and run concurrently; each  *)
(* specification below is the server under one kind of caller.             *)
(***************************************************************************)
Init == CtxIdle /\ LedgerInit /\ SysIdle /\ RegIdle

\* The (resume, fork) arguments of run_agent: fork is given with a resume id.
ResumeInputs ==
  {<<NoSid, FALSE>>} \cup {<<s, f>> : s \in Sids, f \in BOOLEAN}

\* run_agent and cancel_agent calls against the engine.
Next ==
  \/ \E agent \in {"planner", "ghost"}, rf \in ResumeInputs :
        RunAgentTool(agent, "t1", rf[1], rf[2])
  \/ \E i \in 1..MaxInv : OnInit(i)
  \/ \E i \in 1..MaxInv : OnError(i, <<>>, "error_during_execution")
  \/ \E i \in 1..MaxInv : StreamEnd(i)
  \/ \E i \in 1..MaxInv : StreamThrow(i, "boom")
  \/ \E sid \in Sids : CancelCall(sid)
  \/ \E c \in 1..MaxCancels, outcome \in {"resolved", "rejected"} :
        InterruptSettle(c, outcome)
  \/ \E c \in 1..MaxCancels : CancelResume(c)

Spec == Init /\ [][Next]_vars

\* run_agent calls whose agents delegate to one another.
NextDeleg ==
  \/ \E agent \in RegisteredAgents : RunAgentTool(agent, "t1", NoSid, FALSE)
  \/ \E i \in 1..MaxInv : OnInit(i)
  \/ \E i \in 1..MaxInv : OnError(i, <<>>, "error_during_execution")
  \/ \E i \in 1..MaxInv : StreamEnd(i)
  \/ \E i \in 1..MaxInv : StreamThrow(i, "boom")
  \/ \E i \in 1..MaxInv, target \in AgentNames,
        parentSessionId \in Sids \cup {NoSid} :
        Delegate(i, target, "t1", parentSessionId)

SpecDeleg == Init /\ [][NextDeleg]_vars

\* One run_agents_batch call against the engine.
NextBatch ==
  \/ \E tasks \in BatchInputs : RunBatchTool(tasks)
  \/ BatchFinish
  \/ \E i \in 1..MaxInv : OnInit(i)
  \/ \E i \in 1..MaxInv : OnResult(i, "done")
  \/ \E i \in 1..MaxInv : OnError(i, <<>>, "error_during_execution")
  \/ \E i \in 1..MaxInv : StreamEnd(i)
  \/ \E i \in 1..MaxInv : StreamThrow(i, "boom")

SpecBatch == Init /\ [][NextBatch]_vars

\* run_agent calls against an engine that is never interrupted.
NextRun ==
  \/ \E agent \in {"planner", "ghost"}, rf \in ResumeInputs :
        RunAgentTool(agent, "t1", rf[1], rf[2])
  \/ \E i \in 1..MaxInv : OnInit(i)
  \/ \E i \in 1..MaxInv : OnResult(i, "done")
  \/ \E i \in 1..MaxInv : OnError(i, <<>>, "error_during_execution")
  \/ \E i \in 1..MaxInv : StreamEnd(i)
  \/ \E i \in 1..MaxInv : StreamThrow(i, "boom")

SpecRun == Init /\ [][NextRun]_vars

\* run_agent calls, with and without resume, against an engine whose
\* streams carry no result message.
NextResume ==
  \/ \E agent \in {"planner", "ghost"}, rf \in ResumeInputs :
        RunAgentTool(agent, "t1", rf[1], rf[2])
  \/ \E i \in 1..MaxInv : OnInit(i)
  \/ \E i \in 1..MaxInv : StreamEnd(i)
  \/ \E i \in 1..MaxInv : StreamThrow(i, "boom")

SpecResume == Init /\ [][NextResume]_vars

\* Root runs against an engine whose streams may carry several init
\* messages, with the same or with different session ids.
NextReinit ==
  \/ RunAgentTool("planner", "t1", NoSid, FALSE)
  \/ \E i \in 1..MaxInv : OnInit(i)
  \/ \E i \in 1..MaxInv, session_id \in Sids : OnInitAgain(i, session_id)
  \/ \E i \in 1..MaxInv : StreamEnd(i)
  \/ \E i \in 1..MaxInv : StreamThrow(i, "boom")

SpecReinit == Init /\ [][NextReinit]_vars

\* Batches whose tasks come with an id, with an empty id or without one.
TaskIds == {"", "a", "task-1"}
IdTaskSpecs ==
  [agent : {"planner", "ghost"}, task : {"t1"}, id : TaskIds]
    \cup [agent : {"planner", "ghost"}, task : {"t1"}]
IdBatchInputs == UNION {[1..n -> IdTaskSpecs] : n \in 1..MaxTasks}

NextBatchIds ==
  \/ \E tasks \in IdBatchInputs : RunBatchTool(tasks)
  \/ \E i \in 1..MaxInv : OnInit(i)
  \/ \E i \in 1..MaxInv : StreamEnd(i)
  \/ \E i \in 1..MaxInv : StreamThrow(i, "boom")
  \/ BatchFinish

SpecBatchIds == Init /\ [][NextBatchIds]_vars

\* Runs and resumes of session s1 by either agent, with either task, while
\* time passes; the caller makes one call at a time.
NextAgents ==
  \/ Tick
  \/ \E agent \in RegisteredAgents, task \in Tasks, resume \in {NoSid, "s1"} :
        /\ \A i \in 1..MaxInv : inv[i].pc = "free"
        /\ RunAgentTool(agent, task, resume, FALSE)
  \/ \E i \in 1..MaxInv : OnInit(i)
  \/ \E i \in 1..MaxInv : StreamEnd(i)

SpecAgents == Init /\ [][NextAgents]_vars

\* Runs and resumes of one session while cancel_agent is called on it.
NextRunCancel ==
  \/ \E resume \in {NoSid, "s1"} : RunAgentTool("planner", "t1", resume, FALSE)
  \/ \E i \in 1..MaxInv : OnInit(i)
  \/ \E i \in 1..MaxInv : StreamEnd(i)
  \/ \E i \in 1..MaxInv : StreamThrow(i, "boom")
  \/ CancelCall("s1")
  \/ \E c \in 1..MaxCancels, outcome \in {"resolved", "rejected"} :
        InterruptSettle(c, outcome)
  \/ \E c \in 1..MaxCancels : CancelResume(c)

SpecRunCancel == Init /\ [][NextRunCancel]_vars

\* What the engine may put in its result messages: the text of a success
\* (possibly empty), the `errors` and the subtype of a failure.
ResultTexts == {"", "done", "redone"}
ErrorLists == {<<>>, <<"e1">>, <<"e1", "e2">>}
ErrorSubtypes == {"error_max_turns", "error_during_execution"}

\* The messages of the errors query() or its stream may throw.
ThrowMessages == {"boom", "process exited"}

\* run_agent calls against an engine that emits any sequence of result
\* messages before its stream ends or throws.
NextStream ==
  \/ RunAgentTool("planner", "t1", NoSid, FALSE)
  \/ \E i \in 1..MaxInv : OnInit(i)
  \/ \E i \in 1..MaxInv, text \in ResultTexts : OnResult(i, text)
  \/ \E i \in 1..MaxInv, errors \in ErrorLists, subtype \in ErrorSubtypes :
        OnError(i, errors, subtype)
  \/ \E i \in 1..MaxInv : StreamEnd(i)
  \/ \E i \in 1..MaxInv, errMsg \in ThrowMessages : StreamThrow(i, errMsg)

SpecStream == Init /\ [][NextStream]_vars

\* run_agents_batch calls with task lists of any length.
NextBatchTool ==
  \/ \E tasks \in BatchToolInputs : BatchToolCall(tasks)
  \/ BatchFinish
  \/ \E i \in 1..MaxInv : OnInit(i)
  \/ \E i \in 1..MaxInv : OnResult(i, "done")
  \/ \E i \in 1..MaxInv : OnError(i, <<>>, "error_during_execution")
  \/ \E i \in 1..MaxInv : StreamEnd(i)
  \/ \E i \in 1..MaxInv : StreamThrow(i, "boom")

SpecBatchTool == Init /\ [][NextBatchTool]_vars

(***************************************************************************)
(* The loads of the registry: main() at startup, the ListTools handler.    *)
(***************************************************************************)
\* registry.loadFromMultiple([CWD_AGENTS_DIR, USER_AGENTS_DIR]), with what
\* the two directories hold at the time.
LoadAgents(project, user) ==
  /\ registry' = [agents |-> loadFromMultiple(<<project, user>>),
                  dirs |-> <<project, user>>]
  /\ UNCHANGED <<ctxVars, ledgerVars, sysVars, reload>>

\* main(): the initial load.
Main(project, user) ==
  /\ registry.dirs = <<>>
  /\ LoadAgents(project, user)

\* The ListTools handler: a reload.
ListTools(project, user) ==
  /\ registry.dirs # <<>>
  /\ LoadAgents(project, user)

\* The server before main() has run: nothing is loaded.
InitRegistry ==
  /\ CtxIdle /\ LedgerInit /\ SysIdle
  /\ registry = [agents |-> <<>>, dirs |-> <<>>]
  /\ reload = IdleReload

NextRegistry ==
  \/ \E project \in DirContents("project"), user \in DirContents("user") :
        Main(project, user)
  \/ \E project \in DirContents("project"), user \in DirContents("user") :
        ListTools(project, user)

SpecRegistry == InitRegistry /\ [][NextRegistry]_vars

\* The ListTools handler up to the first await of loadFromMultiple: the map
\* is cleared and the directories are noted; nothing is read yet.
ListToolsStart(project, user) ==
  /\ reload.pc = "idle"
  /\ registry' = [agents |-> <<>>, dirs |-> <<project, user>>]
  /\ reload' = [pc |-> "loading", pending |-> <<project, user>>]
  /\ UNCHANGED <<ctxVars, ledgerVars, sysVars>>

\* `await this.loadDir(dir)` for the next directory.
LoadDirStep ==
  /\ reload.pc = "loading"
  /\ reload.pending # <<>>
  /\ registry' = [registry EXCEPT
                    !.agents = loadDir(registry.agents, Head(reload.pending))]
  /\ reload' = [reload EXCEPT !.pending = Tail(reload.pending)]
  /\ UNCHANGED <<ctxVars, ledgerVars, sysVars>>

\* The loop over the directories is over: the handler returns the tools.
ListToolsDone ==
  /\ reload.pc = "loading"
  /\ reload.pending = <<>>
  /\ reload' = IdleReload
  /\ UNCHANGED <<ctxVars, ledgerVars, sysVars, registry>>

\* registry.getOrThrow(name), the first step of runAgent.
ResolveAgent(name) ==
  /\ ret' = [op |-> "getOrThrow", val |-> name \in DOMAIN registry.agents,
             code |-> IF name \in DOMAIN registry.agents
                      THEN "" ELSE "AGENT_NOT_FOUND",
             sid |-> NoSid]
  /\ UNCHANGED <<ctxVars, regVars, sysVars, sessionStore, now, cancels,
                 interrupts>>

\* The directories while the planner's definition file stays in the project
\* directory: other files come and go there and in the user directory.
PlannerDirs ==
  {d \in DirContents("project") : "planner" \in DOMAIN d}

\* run_agent calls arriving while list-tools requests reload the registry.
NextReload ==
  \/ \E project \in PlannerDirs, user \in DirContents("user") :
        ListToolsStart(project, user)
  \/ LoadDirStep
  \/ ListToolsDone
  \/ \E name \in AgentNames : ResolveAgent(name)

SpecReload == Init /\ [][NextReload]_vars

(***************************************************************************)
(* Properties.                                                             *)
(***************************************************************************)
NoRepeat(stack) ==
  \A i, j \in 1..Len(stack) : stack[i] = stack[j] => i = j

\* Invocation i executes session s: it holds s as its session id, or it
\* resumes s (without fork) and has not received its init message yet.
Executing(i, s) ==
  /\ inv[i].pc = "running"
  /\ \/ inv[i].sessionId = s
     \/ inv[i].sessionId = NoSid /\ inv[i].resume = s /\ ~inv[i].fork

\* C1: at most one invocation executes a given session id at a time, under
\* every interleaving of concurrent run_agent calls: two executions of the
\* same session never run concurrently.
C1_OneExecutionPerSession ==
  \A s \in Sids : Cardinality({i \in 1..MaxInv : Executing(i, s)}) <= 1

\* C2: in every ledger state reached by save/complete/cancel/remove/clear, a
\* record has is_active = true if and only if a cancel handle is retained for
\* its session id, and activeCount is the number of records with is_active.
C2_ActiveIffHandle ==
  /\ \A s \in Sids :
        /\ has(sessionStore, s) =>
              (get(sessionStore, s).is_active <=>
                 getQuery(sessionStore, s) # NoQuery)
        /\ getQuery(sessionStore, s) # NoQuery => has(sessionStore, s)
  /\ activeCount(sessionStore) =
        Cardinality({s \in Sids : isActive(sessionStore, s)})

\* The agents of the nested in-flight calls that lead to invocation i, from
\* the outermost call down to i.
RECURSIVE ActualChain(_)
ActualChain(i) ==
  IF inv[i].parent = 0 THEN <<inv[i].agent>>
  ELSE Append(ActualChain(inv[i].parent), inv[i].agent)

\* C3: the actual chain of nested in-flight delegations from the root call
\* has at most MAX_DELEGATION_DEPTH hops and names no agent twice.
C3_ActualChainBounded ==
  \A i \in 1..MaxInv :
     inv[i].pc = "running" =>
        /\ Len(ActualChain(i)) - 1 <= MAX_DELEGATION_DEPTH
        /\ NoRepeat(ActualChain(i))

\* C4: descending from a root through pairwise distinct agent names, every
\* descend made after fewer than MAX_DELEGATION_DEPTH hops succeeds, and the
\* descend made after exactly MAX_DELEGATION_DEPTH hops (the transition from
\* depth max to max+1) fails with DELEGATION_DEPTH_EXCEEDED; the walk never
\* holds more than MAX_DELEGATION_DEPTH hops.
C4_DepthExceededExactlyPastMax ==
  /\ hops <= MAX_DELEGATION_DEPTH
  /\ dctx.depth = hops
  /\ (dres.op = "descend" /\ ~InStack(dres.parent.agentStack, dres.child)) =>
        /\ dres.hopsBefore < MAX_DELEGATION_DEPTH => dres.outcome.kind = "ok"
        /\ dres.hopsBefore = MAX_DELEGATION_DEPTH =>
              dres.outcome.kind = "DELEGATION_DEPTH_EXCEEDED"

C4_Witness ==
  /\ dres.op = "descend"
  /\ ~InStack(dres.parent.agentStack, dres.child)
  /\ dres.hopsBefore = MAX_DELEGATION_DEPTH
  /\ dres.outcome.kind = "DELEGATION_DEPTH_EXCEEDED"

\* C5: a descend to a child that appears at any position of the parent's
\* chain, made where the depth bound is not exceeded, fails with
\* DELEGATION_CYCLE_DETECTED (an agent delegating to itself at depth 0
\* included), and no context of the walk has a chain with a repeated name.
C5_CycleDetected ==
  /\ NoRepeat(dctx.agentStack)
  /\ (/\ dres.op = "descend"
      /\ InStack(dres.parent.agentStack, dres.child)
      /\ dres.hopsBefore < MAX_DELEGATION_DEPTH) =>
        dres.outcome.kind = "DELEGATION_CYCLE_DETECTED"

C5_Witness ==
  /\ dres.op = "descend"
  /\ dres.outcome.kind = "DELEGATION_CYCLE_DETECTED"
  /\ Len(dres.parent.agentStack) >= 3
  /\ dres.child = dres.parent.agentStack[2]

\* The tasks of the batch whose invocation failed: it threw, or it returned
\* an AgentResult with success = false.
FailedTasks ==
  {k \in 1..Len(batch.tasks) : ~batch.promises[k].success}

\* C6: a finished batch of N tasks of which exactly one failed has N result
\* entries, succeeded = N-1, failed = 1, all_success = false, and the entry
\* of every other task is present and successful.
C6_OneFailureIsolated ==
  (batch.pc = "done" /\ Cardinality(FailedTasks) = 1) =>
     /\ Len(batch.result.results) = Len(batch.tasks)
     /\ batch.result.succeeded = Len(batch.tasks) - 1
     /\ batch.result.failed = 1
     /\ batch.result.all_success = FALSE
     /\ \A k \in 1..Len(batch.tasks) :
           /\ batch.result.results[k].index = k - 1
           /\ k \notin FailedTasks => batch.result.results[k].success

C6_Witness ==
  /\ batch.pc = "done"
  /\ Len(batch.tasks) = 2
  /\ Cardinality(FailedTasks) = 1
  /\ batch.result.succeeded = 1

\* C7: the BatchResult exists only after the invocation of every task of
\* the batch has settled: none is still running, whatever its siblings did.
C7_ResultAfterAllSettled ==
  batch.pc = "done" =>
     /\ \A i \in 1..MaxInv : inv[i].pc = "running" => inv[i].batchIx = 0
     /\ \A k \in 1..Len(batch.tasks) : batch.promises[k].state = "fulfilled"

C7_Witness ==
  /\ batch.pc = "done"
  /\ Len(batch.tasks) = 2
  /\ batch.result.failed = 1
  /\ batch.result.results[1].error = "AGENT_NOT_FOUND"
  /\ batch.result.results[2].success

\* C8: when cancel(s), called on a session with a retained handle, returns
\* after interrupt() resolved or rejected, it returns true and s is left
\* with is_active = false and no handle, so that run_agent with resume = s
\* is not rejected with SESSION_ALREADY_ACTIVE.
C8_CancelCompletes ==
  [][\A c \in 1..MaxCancels :
        CancelResume(c) =>
           /\ ret'.op = "cancel" /\ ret'.val = TRUE
           /\ ~isActive(sessionStore', cancels[c].sid)
           /\ getQuery(sessionStore', cancels[c].sid) = NoQuery
           /\ validateRun(sessionStore', "planner", cancels[c].sid)
                 # "SESSION_ALREADY_ACTIVE"]_vars

C8_Witness ==
  /\ ret.op = "cancel"
  /\ ret.val = TRUE
  /\ ret.code = "INTERRUPT_FAILED"
  /\ has(sessionStore, ret.sid)
  /\ validateRun(sessionStore, "planner", ret.sid) = ""

\* C9: cancel(s) on a session id that is absent, or present without a
\* retained handle, returns false without an error and leaves every record
\* (last_active included) and every handle as it was; cancel_agent reports
\* success = false.
C9_CancelWithoutHandle ==
  [][\A s \in Sids :
        (getQuery(sessionStore, s) = NoQuery /\ CancelCall(s)) =>
           /\ ret' = [op |-> "cancel", val |-> FALSE, code |-> "", sid |-> s]
           /\ sessionStore' = sessionStore
           /\ cancels' = cancels]_vars

C9_Witness ==
  /\ ret.op = "cancel"
  /\ ret.val = FALSE
  /\ has(sessionStore, ret.sid)
  /\ get(sessionStore, ret.sid).last_active < now
  /\ \E s \in Sids : getQuery(sessionStore, s) # NoQuery

\* C10: a cancel(s) on an active session always eventually returns, with s
\* inactive, whether or not the engine ever settles the interrupt.
C10_CancelEventuallyReturns ==
  \A c \in 1..MaxCancels :
     (cancels[c].pc = "awaiting") ~>
        (cancels[c].pc = "idle" /\ ret.op = "cancel" /\ ret.val = TRUE)

\* C11: run_agent for a registered agent with a resume id that is not in the
\* ledger fails with SESSION_NOT_FOUND; with a resume id whose record has
\* is_active = true it fails with SESSION_ALREADY_ACTIVE; with a resume id
\* that exists and is inactive it passes validation and the run starts.
C11_ResumeValidation ==
  [][\A agent \in RegisteredAgents, s \in Sids, fork \in BOOLEAN :
        RunAgentTool(agent, "t1", s, fork) =>
           /\ ~has(sessionStore, s) =>
                 /\ ret'.op = "run_agent" /\ ret'.code = "SESSION_NOT_FOUND"
                 /\ inv' = inv
           /\ isActive(sessionStore, s) =>
                 /\ ret'.op = "run_agent"
                 /\ ret'.code = "SESSION_ALREADY_ACTIVE"
                 /\ inv' = inv
           /\ (has(sessionStore, s) /\ ~get(sessionStore, s).is_active) =>
                 /\ ret' = ret
                 /\ \E i \in 1..MaxInv :
                       /\ inv[i].pc = "free"
                       /\ inv'[i].pc = "running"
                       /\ inv'[i].resume = s]_vars

C11_Witness ==
  /\ ret.op = "run_agent"
  /\ ret.code = "SESSION_ALREADY_ACTIVE"
  /\ \E i \in 1..MaxInv :
        /\ inv[i].pc = "running"
        /\ inv[i].resume # NoSid
        /\ inv[i].sessionId = inv[i].resume
        /\ isActive(sessionStore, inv[i].resume)

\* C12: while a session id is neither removed nor cleared, every save,
\* complete, cancel and resume leaves the initial_task and created_at of its
\* record as the first save wrote them; the first save writes the task and
\* the time of the call, every save sets last_active to the time of the
\* call, and last_active never decreases.
C12_InitialTaskImmutable ==
  [][\A s \in Sids :
        /\ has(sessionStore, s) =>
              /\ has(sessionStore', s)
              /\ get(sessionStore', s).initial_task =
                    get(sessionStore, s).initial_task
              /\ get(sessionStore', s).created_at =
                    get(sessionStore, s).created_at
              /\ get(sessionStore', s).last_active >=
                    get(sessionStore, s).last_active
        /\ \A agent \in RegisteredAgents, task \in Tasks,
              query \in LedgerQueries \cup {NoQuery} :
              StoreSave(s, agent, task, query) =>
                 /\ get(sessionStore', s).last_active = now
                 /\ ~has(sessionStore, s) =>
                       /\ get(sessionStore', s).initial_task = task
                       /\ get(sessionStore', s).created_at = now]_vars

\* A record that was saved with a handle after its creation: a resume.
C12_Witness ==
  /\ has(sessionStore, "s1")
  /\ get(sessionStore, "s1").is_active
  /\ get(sessionStore, "s1").created_at = 0
  /\ get(sessionStore, "s1").last_active = MaxClock
  /\ get(sessionStore, "s1").initial_task = "t1"
  /\ get(sessionStore, "s1").agent = "coder"

\* run_agent(agent, resume) must be rejected in ledger st: the agent is
\* unknown, the resume id is dangling, or the resume id is active.
MustReject(st, agent, resume) ==
  \/ agent \in UnknownAgents
  \/ resume # NoSid /\ ~has(st, resume)
  \/ resume # NoSid /\ has(st, resume) /\ get(st, resume).is_active

\* C13: an invocation that fails before the engine assigns a session id (a
\* rejected run_agent, or a stream that throws before its init message)
\* leaves the ledger and the context table exactly as they were, and a
\* rejected run_agent starts no engine execution.
C13_NoTraceBeforeSessionId ==
  [][/\ \A agent \in AgentNames, s \in Sids \cup {NoSid}, fork \in BOOLEAN :
          (MustReject(sessionStore, agent, s) /\
           RunAgentTool(agent, "t1", s, fork)) =>
             /\ sessionStore' = sessionStore
             /\ executionContexts' = executionContexts
             /\ inv' = inv
             /\ ret'.op = "run_agent" /\ ret'.val = FALSE
     /\ \A i \in 1..MaxInv :
          (inv[i].sessionId = NoSid /\ StreamThrow(i, "boom")) =>
             /\ sessionStore' = sessionStore
             /\ executionContexts' = executionContexts]_vars

C13_Witness ==
  /\ ret.op = "run_agent"
  /\ ret.val = FALSE
  /\ ret.sid = "unknown"
  /\ isActive(sessionStore, "s1")
  /\ "s1" \in DOMAIN executionContexts

\* C14: when runAgent returns, by the end of the stream (after a result or
\* an error event, or none) or by an exception of the stream, for an
\* invocation that received a session id, that session is in the ledger
\* with is_active = false and no handle, and a resume of it passes
\* validation.
C14_ResumableAfterReturn ==
  [][\A i \in 1..MaxInv :
        (inv[i].sessionId # NoSid /\ (StreamEnd(i) \/ StreamThrow(i, "boom"))) =>
           /\ has(sessionStore', inv[i].sessionId)
           /\ ~get(sessionStore', inv[i].sessionId).is_active
           /\ getQuery(sessionStore', inv[i].sessionId) = NoQuery
           /\ ~MustReject(sessionStore', inv[i].agent, inv[i].sessionId)
           /\ ret'.op = "run_agent"
           /\ ret'.sid = inv[i].sessionId]_vars

\* A run that established s1 has thrown and returned its failure, and s1 is
\* in the ledger, inactive.
C14_Witness ==
  /\ ret.op = "run_agent"
  /\ ret.code = "Agent execution failed: boom"
  /\ ret.sid = "s1"
  /\ has(sessionStore, "s1")
  /\ ~isActive(sessionStore, "s1")
  /\ \A i \in 1..MaxInv : inv[i].pc = "free"

\* The invocations in flight.
InFlight == {i \in 1..MaxInv : inv[i].pc = "running"}

C16_ActiveIsLastCall ==
  [][\A s \in Sids :
        /\ \A agent \in RegisteredAgents, task \in Tasks,
              query \in LedgerQueries \cup {NoQuery} :
              StoreSave(s, agent, task, query) =>
                 /\ has(sessionStore', s)
                 /\ get(sessionStore', s).is_active = (query # NoQuery)
                 /\ \A o \in Sids \ {s} :
                       isActive(sessionStore', o) = isActive(sessionStore, o)
        /\ StoreComplete(s) =>
              /\ has(sessionStore', s) = has(sessionStore, s)
              /\ ~isActive(sessionStore', s)
              /\ \A o \in Sids \ {s} :
                    isActive(sessionStore', o) = isActive(sessionStore, o)]_vars

\* The most recent call on s1 was a save without a handle that followed a
\* save with one; s2 was completed after a save with a handle.
C16_Witness ==
  /\ has(sessionStore, "s1")
  /\ ~get(sessionStore, "s1").is_active
  /\ getQuery(sessionStore, "s1") # NoQuery
  /\ has(sessionStore, "s2")
  /\ ~get(sessionStore, "s2").is_active
  /\ getQuery(sessionStore, "s2") = NoQuery

\* The session ids of the records of a list() result.
ListedIds(out) == {out[k].session_id : k \in 1..Len(out)}

\* C17: in every ledger state and for every filter, list() returns each
\* record that passes the filter exactly once and no other record: with
\* active_only the records with is_active = true, with agent = X the
\* records of agent X, with both their intersection.
C17_ListFilters ==
  \A filter \in Filters :
     LET out == list(sessionStore, filter)
     IN /\ ListedIds(out) =
             {s \in Sids :
                /\ has(sessionStore, s)
                /\ filter.active_only => get(sessionStore, s).is_active
                /\ filter.agent # NoAgent =>
                      get(sessionStore, s).agent = filter.agent}
        /\ Cardinality(ListedIds(out)) = Len(out)
        /\ \A k \in 1..Len(out) :
              out[k] = get(sessionStore, out[k].session_id)

\* Two records of different agents, one of them active: each filter keeps
\* another subset.
C17_Witness ==
  /\ size(sessionStore) = 2
  /\ Len(list(sessionStore, [agent |-> "coder", active_only |-> FALSE])) = 1
  /\ Len(list(sessionStore, [agent |-> NoAgent, active_only |-> TRUE])) = 1
  /\ Len(list(sessionStore, [agent |-> "coder", active_only |-> TRUE])) = 0
  /\ Len(list(sessionStore, [agent |-> "ghost", active_only |-> FALSE])) = 0

\* C18: for every ledger state and every filter, list() is ordered by
\* last_active descending, and records with the same last_active are in
\* the order of their insertion in the ledger (so a record created
\* earlier never follows one created later with the same last_active).
C18_ListOrder ==
  \A filter \in Filters :
     LET out == list(sessionStore, filter)
     IN \A i, j \in 1..Len(out) :
           i < j =>
              \/ out[i].last_active > out[j].last_active
              \/ /\ out[i].last_active = out[j].last_active
                 /\ IndexOf(sessionStore.sessions, out[i].session_id) <
                       IndexOf(sessionStore.sessions, out[j].session_id)
                 /\ out[i].created_at <= out[j].created_at

\* s1 was created before s2 and both were last touched at the same time:
\* s1 is listed first.
C18_Witness ==
  /\ size(sessionStore) = 2
  /\ get(sessionStore, "s1").created_at < get(sessionStore, "s2").created_at
  /\ get(sessionStore, "s1").last_active = get(sessionStore, "s2").last_active
  /\ list(sessionStore, [agent |-> NoAgent, active_only |-> FALSE])[1].session_id
        = "s1"

\* C19: of the ledger operations only getOrThrow fails, with
\* SESSION_NOT_FOUND on an absent id and not otherwise.  On an absent id
\* get returns `undefined`, has and isActive return false, complete changes
\* nothing, and remove and cancel return false, without an error and
\* without changing the ledger.
C19_OnlyGetOrThrowFails ==
  [][\A s \in Sids :
        /\ has(sessionStore, s) =>
              /\ getOrThrow(sessionStore, s).threw = ""
              /\ getOrThrow(sessionStore, s).session = get(sessionStore, s)
              /\ get(sessionStore, s).session_id = s
        /\ ~has(sessionStore, s) =>
              /\ getOrThrow(sessionStore, s).threw = "SESSION_NOT_FOUND"
              /\ get(sessionStore, s) = NoSession
              /\ ~isActive(sessionStore, s)
              /\ complete(sessionStore, s, now) = sessionStore
              /\ StoreComplete(s) => sessionStore' = sessionStore
              /\ StoreRemove(s) =>
                    /\ ret' = [op |-> "remove", val |-> FALSE, code |-> "",
                               sid |-> NoSid]
                    /\ sessionStore' = sessionStore
              /\ CancelCall(s) =>
                    /\ ret' = [op |-> "cancel", val |-> FALSE, code |-> "",
                               sid |-> s]
                    /\ sessionStore' = sessionStore
                    /\ cancels' = cancels]_vars

\* cancel() on an absent id has returned false, next to a record that is
\* active.
C19_Witness ==
  /\ ret.op = "cancel"
  /\ ret.val = FALSE
  /\ ~has(sessionStore, ret.sid)
  /\ getOrThrow(sessionStore, ret.sid).threw = "SESSION_NOT_FOUND"
  /\ activeCount(sessionStore) = 1

\* C20: clear() calls interrupt() on every handle the ledger still retains and
\* leaves the ledger empty (size = 0, activeCount = 0), whatever the outcome
\* of the interrupt calls: a promise that settles afterwards, resolved or
\* rejected, changes nothing in the ledger.
C20_ClearEmptiesLedger ==
  [][/\ StoreClear =>
          /\ \A query \in retained(sessionStore) :
                <<query, "pending">> \in interrupts'
          /\ size(sessionStore') = 0
          /\ activeCount(sessionStore') = 0
          /\ \A sid \in Sids :
                /\ ~has(sessionStore', sid)
                /\ getQuery(sessionStore', sid) = NoQuery
     /\ \A query \in ClearQueries, outcome \in {"resolved", "rejected"} :
          ClearInterruptSettle(query, outcome) =>
            sessionStore' = sessionStore]_vars

\* Two sessions held two different handles when clear() ran; one interrupt
\* was rejected, the other resolved, and the ledger is empty.
C20_Witness ==
  /\ <<1, "rejected">> \in interrupts
  /\ <<2, "resolved">> \in interrupts
  /\ size(sessionStore) = 0
  /\ activeCount(sessionStore) = 0

\* What C21 says of the events of a stream: a result event of either kind
\* leaves the loop running and does not undo what the other kind has set.
EventsConsumed ==
  /\ \A i \in 1..MaxInv, text \in ResultTexts :
        OnResult(i, text) =>
          /\ inv'[i].pc = "running"
          /\ inv'[i].result = text
          /\ inv'[i].errorMessage = inv[i].errorMessage
  /\ \A i \in 1..MaxInv, errors \in ErrorLists, subtype \in ErrorSubtypes :
        OnError(i, errors, subtype) =>
          /\ inv'[i].pc = "running"
          /\ inv'[i].errorMessage # NoError
          /\ inv'[i].result = inv[i].result

\* C21 as stated: when the stream ends without throwing, success is false
\* exactly when a failure event was in the stream, and the text of the success
\* event, if there was one, is the summary.
C21_AsStated ==
  [][/\ EventsConsumed
     /\ \A i \in 1..MaxInv :
          StreamEnd(i) =>
            /\ ret'.val = ~inv[i].seen.failure
            /\ agentResult(inv[i]).error # NoError <=> inv[i].seen.failure
            /\ inv[i].seen.success => ret'.code = inv[i].seen.text]_vars

\* C21, amended: when the stream ends without throwing, success is false
\* exactly when a failure event was in the stream; every result event is
\* consumed, before or after a failure; the summary is the text of the latest
\* success event when that text is not empty, with the error beside it, and
\* otherwise "Error: <message>" after a failure and "No result" without one.
C21_SuccessIffNoFailure ==
  [][/\ EventsConsumed
     /\ \A i \in 1..MaxInv :
          StreamEnd(i) =>
            /\ ret'.val = ~inv[i].seen.failure
            /\ agentResult(inv[i]).error # NoError <=> inv[i].seen.failure
            /\ inv[i].seen.text # "" => ret'.code = inv[i].seen.text
            /\ (inv[i].seen.text = "" /\ inv[i].seen.failure) =>
                 ret'.code = "Error: " \o inv[i].errorMessage
            /\ (inv[i].seen.text = "" /\ ~inv[i].seen.failure) =>
                 ret'.code = "No result"]_vars

\* A run has returned success = false with the text of its success event as
\* the summary: the stream held a failure event and a success event.
C21_Witness ==
  /\ ret.op = "run_agent"
  /\ ~ret.val
  /\ ret.code = "redone"
  /\ ret.sid \in Sids

\* C22: when query() or its stream throws during runAgent, nothing is thrown
\* on to the caller: the caller is handed an AgentResult with success = false
\* that carries the message of the error, and whose session_id is the session
\* id of the run if the init message came before the error ("unknown" if not).
C22_EngineErrorsReturned ==
  [][\A i \in 1..MaxInv, errMsg \in ThrowMessages :
       StreamThrow(i, errMsg) =>
         /\ ret'.op = "run_agent"
         /\ ~ret'.val
         /\ ret'.code = "Agent execution failed: " \o errMsg
         /\ agentFailure(inv[i], errMsg).error = errMsg
         /\ inv[i].sessionId # NoSid => ret'.sid = inv[i].sessionId
         /\ inv[i].sessionId = NoSid => ret'.sid = "unknown"
         /\ inv'[i].pc = "free"]_vars

\* The engine threw after it had announced session s2: the run returned the
\* failure under s2, and s2 is left in the ledger, inactive.
C22_Witness ==
  /\ ret.op = "run_agent"
  /\ ~ret.val
  /\ ret.code = "Agent execution failed: process exited"
  /\ ret.sid = "s2"
  /\ has(sessionStore, "s2")
  /\ ~isActive(sessionStore, "s2")

\* C23: run_batch with no task or with more than 10 tasks is rejected with
\* the InvalidBatch error before any task is launched, so that no invocation
\* starts and no session is created; a batch of 1 to 10 tasks is accepted.
C23_InvalidBatchRejected ==
  [][\A tasks \in BatchToolInputs :
       BatchToolCall(tasks) =>
         IF Len(tasks) = 0 \/ Len(tasks) > 10
         THEN /\ ret'.op = "run_agents_batch"
              /\ ret'.code = "INVALID_BATCH"
              /\ UNCHANGED <<sessionStore, inv, batch, executionContexts>>
         ELSE /\ batch'.pc = "waiting"
              /\ Len(batch'.promises) = Len(tasks)]_vars

\* What the code does keep of C23: the rejection comes before any launch and
\* leaves no trace, and lists of 1 to 10 tasks are run; the rejection carries
\* the code of an untyped error.
C23_RejectedBeforeLaunch ==
  [][\A tasks \in BatchToolInputs :
       BatchToolCall(tasks) =>
         IF Len(tasks) = 0 \/ Len(tasks) > 10
         THEN /\ ret'.op = "run_agents_batch"
              /\ ret'.code = "UNKNOWN_ERROR"
              /\ UNCHANGED <<sessionStore, inv, batch, executionContexts>>
         ELSE /\ batch'.pc = "waiting"
              /\ Len(batch'.promises) = Len(tasks)]_vars

\* C24: a batch result has exactly one entry per input task, in the order of
\* the tasks; succeeded + failed is the number of tasks; and all_success is
\* true exactly when every entry has success = true.
C24_BatchResultCounts ==
  batch.pc = "done" =>
     /\ Len(batch.result.results) = Len(batch.tasks)
     /\ \A k \in 1..Len(batch.tasks) : batch.result.results[k].index = k - 1
     /\ batch.result.succeeded + batch.result.failed = Len(batch.tasks)
     /\ batch.result.succeeded =
          Cardinality({k \in 1..Len(batch.tasks) :
                         batch.result.results[k].success})
     /\ batch.result.all_success <=>
          \A k \in 1..Len(batch.tasks) : batch.result.results[k].success

\* A batch of two tasks has finished with one task succeeded and one whose
\* run returned a failure under its own session.
C24_Witness ==
  /\ batch.pc = "done"
  /\ Len(batch.tasks) = 2
  /\ batch.result.results[1].success
  /\ ~batch.result.results[2].success
  /\ batch.result.results[2].session_id \in Sids
  /\ ~batch.result.all_success

\* The delegating invocation p is still running after the step, its session
\* is active and its context is registered.
DelegatorIntact(p) ==
  /\ inv'[p].pc = "running"
  /\ inv'[p].sessionId = inv[p].sessionId
  /\ isActive(sessionStore', inv[p].sessionId)
  /\ getQuery(sessionStore', inv[p].sessionId) = p
  /\ inv[p].sessionId \in DOMAIN executionContexts'
  /\ executionContexts'[inv[p].sessionId] = executionContexts[inv[p].sessionId]

C26_ProjectOverridesUser ==
  registry.dirs # <<>> =>
    \A n \in DOMAIN registry.dirs[1] \cap DOMAIN registry.dirs[2] :
       /\ n \in DOMAIN registry.agents
       /\ registry.agents[n] = registry.dirs[1][n]

\* What the server's loads do: a name defined in both directories resolves
\* to the definition of the user directory, which is loaded last.
C26_UserOverridesProject ==
  registry.dirs # <<>> =>
    /\ DOMAIN registry.agents = DOMAIN registry.dirs[1] \cup DOMAIN registry.dirs[2]
    /\ \A n \in DOMAIN registry.dirs[2] : registry.agents[n] = registry.dirs[2][n]
    /\ \A n \in DOMAIN registry.dirs[1] \ DOMAIN registry.dirs[2] :
          registry.agents[n] = registry.dirs[1][n]

\* The ledger's record of s and the handle it retains for s.
LedgerEntry(st, s) == <<has(st, s), get(st, s), getQuery(st, s)>>

\* C27: a run started with resume = s and fork = true is recorded under a
\* session id other than s, and no step of that run (init, results, end,
\* throw) changes the ledger's record of s or its handle; s is still in the
\* ledger when the run returns.
C27_ForkLeavesSource ==
  [][\A i \in 1..MaxInv :
       (inv[i].pc = "running" /\ inv[i].resume # NoSid /\ inv[i].fork) =>
         /\ OnInit(i) =>
              /\ inv'[i].sessionId \notin {NoSid, inv[i].resume}
              /\ has(sessionStore', inv'[i].sessionId)
              /\ getQuery(sessionStore', inv'[i].sessionId) = i
              /\ ~has(sessionStore, inv'[i].sessionId)
         /\ (\/ OnInit(i)
             \/ OnResult(i, "done")
             \/ OnError(i, <<>>, "error_during_execution")
             \/ StreamEnd(i)
             \/ StreamThrow(i, "boom")) =>
              /\ LedgerEntry(sessionStore', inv[i].resume)
                   = LedgerEntry(sessionStore, inv[i].resume)
              /\ has(sessionStore', inv[i].resume)]_vars

\* A run that forked s1 is in flight under s2: s2 is active with the run's
\* handle, s1 is as the run before left it, inactive and without a handle.
C27_Witness ==
  /\ inv[1].pc = "running"
  /\ inv[1].resume = "s1"
  /\ inv[1].fork
  /\ inv[1].sessionId = "s2"
  /\ getQuery(sessionStore, "s2") = 1
  /\ has(sessionStore, "s1")
  /\ ~isActive(sessionStore, "s1")
  /\ getQuery(sessionStore, "s1") = NoQuery
  /\ validateRun(sessionStore, "planner", "s1") = ""

\* C28: no ledger operation has a suspension point between reading the
\* ledger state it acts on and finishing its mutation, so that no other task
\* changes the ledger in the middle of it.  save, complete, remove and clear
\* are single steps; of a cancel() that has read the handle of its session and
\* has not yet completed the session, this says that the ledger still retains
\* that handle for that session.
C28_NoSuspensionMidOperation ==
  \A c \in 1..MaxCancels :
     cancels[c].pc # "idle" =>
        /\ getQuery(sessionStore, cancels[c].sid) = cancels[c].query
        /\ isActive(sessionStore, cancels[c].sid)

\* C29: a descend that would both exceed the maximum depth and revisit an
\* agent of the parent's chain fails with DelegationDepthExceeded, not with
\* DelegationCycleDetected.
C29_DepthBeforeCycle ==
  (/\ dres.op = "descend"
   /\ dres.parent.depth + 1 > MAX_DELEGATION_DEPTH
   /\ InStack(dres.parent.agentStack, dres.child)) =>
      dres.outcome.kind = "DELEGATION_DEPTH_EXCEEDED"

\* A walk of five hops from a1 has reached the maximum depth, and the descend
\* to a1 again was rejected for depth.
C29_Witness ==
  /\ dres.op = "descend"
  /\ dres.parent.depth = MAX_DELEGATION_DEPTH
  /\ dres.parent.agentStack[1] = "a1"
  /\ dres.child = "a1"
  /\ dres.outcome.kind = "DELEGATION_DEPTH_EXCEEDED"
  /\ dctx = dres.parent

\* C30: a descend rejected for a cycle or for depth reports the parent's
\* chain followed by the rejected child, in the error and in the failure
\* handed to the delegating agent; planner -> coder -> reviewer -> planner is
\* rejected with DelegationCycleDetected and the chain
\* [planner, coder, reviewer, planner].
C30_ReportedChain ==
  /\ (dres.op = "descend" /\ dres.outcome.kind # "ok") =>
        /\ dres.outcome.kind \in {"DELEGATION_DEPTH_EXCEEDED",
                                   "DELEGATION_CYCLE_DETECTED"}
        /\ dres.outcome.chain = dres.parent.agentStack \o <<dres.child>>
        /\ delegationFailureContext(dres.parent, dres.child).chain
             = dres.outcome.chain
  /\ LET reviewer == [depth |-> 2,
                      agentStack |-> <<"planner", "coder", "reviewer">>,
                      rootSessionId |-> "s1"]
     IN /\ createChildContext(reviewer, "planner").kind
             = "DELEGATION_CYCLE_DETECTED"
        /\ createChildContext(reviewer, "planner").chain
             = <<"planner", "coder", "reviewer", "planner">>

\* a1 -> a2 -> a3 -> a1: the last descend was rejected for a cycle and
\* reported the chain [a1, a2, a3, a1].
C30_Witness ==
  /\ dres.op = "descend"
  /\ dres.outcome.kind = "DELEGATION_CYCLE_DETECTED"
  /\ dres.outcome.chain = <<"a1", "a2", "a3", "a1">>
  /\ dctx.agentStack = <<"a1", "a2", "a3">>

\* chain.length = depth + 1
WellFormed(ctx) == Len(ctx.agentStack) = ctx.depth + 1

\* C31: every context created for a run and every context registered in the
\* context table has chain.length = depth + 1; the context registered for a
\* root run has depth 0 and the chain [agent]; the context a delegation
\* creates has the parent's depth + 1, the parent's chain with the child
\* appended and the parent's root session id, and creating it leaves the
\* parent's context as it was.
C31_ContextShape ==
  [][/\ \A sid \in DOMAIN executionContexts' :
          WellFormed(executionContexts'[sid])
     /\ \A i \in 1..MaxInv :
          inv'[i].executionContext # NoCtx =>
             WellFormed(inv'[i].executionContext)
     /\ \A i \in 1..MaxInv :
          (OnInit(i) /\ inv[i].executionContext = NoCtx) =>
             /\ inv'[i].sessionId \in DOMAIN executionContexts'
             /\ executionContexts'[inv'[i].sessionId] =
                  [depth |-> 0, agentStack |-> <<inv[i].agent>>,
                   rootSessionId |-> inv'[i].sessionId]
     /\ \A i \in 1..MaxInv, target \in AgentNames,
          parentSessionId \in Sids \cup {NoSid} :
          (Delegate(i, target, "t1", parentSessionId) /\ inv' # inv) =>
             LET parent ==
                   handleDelegation(executionContexts, parentSessionId)
                 child == inv'[NextInv].executionContext
             IN /\ child.depth = parent.depth + 1
                /\ child.agentStack = parent.agentStack \o <<target>>
                /\ child.rootSessionId = parent.rootSessionId
                /\ executionContexts' = executionContexts
                /\ handleDelegation(executionContexts', parentSessionId)
                     = parent]_vars

\* planner, running as the root s1, has delegated to coder, whose run is
\* registered under s2 with depth 1 and the chain [planner, coder].
C31_Witness ==
  /\ "s1" \in DOMAIN executionContexts
  /\ executionContexts["s1"] =
       [depth |-> 0, agentStack |-> <<"planner">>, rootSessionId |-> "s1"]
  /\ "s2" \in DOMAIN executionContexts
  /\ executionContexts["s2"] =
       [depth |-> 1, agentStack |-> <<"planner", "coder">>,
        rootSessionId |-> "s1"]

\* C32: a delegation to a registered agent whose calling session id has no
\* registered context is not rejected: the caller is taken to be a fresh root
\* at depth 0 rooted at that session id, and the delegated run starts with a
\* context of depth 1 derived from it.
C32_MissingContextFallsBack ==
  [][\A i \in 1..MaxInv, target \in RegisteredAgents,
        parentSessionId \in Sids \cup {NoSid} :
        (/\ parentSessionId \notin DOMAIN executionContexts
         /\ Delegate(i, target, "t1", parentSessionId)) =>
           /\ handleDelegation(executionContexts, parentSessionId) =
                [depth |-> 0, agentStack |-> <<"unknown">>,
                 rootSessionId |-> parentSessionId]
           /\ ret' = ret
           /\ inv'[NextInv].pc = "running"
           /\ inv'[NextInv].agent = target
           /\ inv'[NextInv].parent = i
           /\ inv'[NextInv].executionContext =
                [depth |-> 1, agentStack |-> <<"unknown", target>>,
                 rootSessionId |-> parentSessionId]]_vars

\* planner's delegation to coder reached the handler without a session id:
\* coder runs, nested in planner's call, with depth 1 under the chain
\* [unknown, coder].
C32_Witness ==
  /\ inv[1].pc = "running"
  /\ inv[1].agent = "planner"
  /\ inv[2].pc = "running"
  /\ inv[2].agent = "coder"
  /\ inv[2].parent = 1
  /\ inv[2].executionContext.depth = 1
  /\ inv[2].executionContext.agentStack = <<"unknown", "coder">>

\* C33: complete(s) applied twice in a row leaves the record inactive and the
\* handle released as one application does, and every field of every record
\* as the first application left it except the last_active of s, which takes
\* the time of the second call; applied to an absent session id, complete
\* changes nothing and creates no record.
C33_SecondCompleteTouchesLastActive ==
  [][\A sid \in Sids :
        StoreComplete(sid) =>
          \A t2 \in now..MaxClock :
            LET once  == sessionStore'
                twice == complete(once, sid, t2)
            IN /\ twice.activeQueries = once.activeQueries
               /\ getQuery(twice, sid) = NoQuery
               /\ has(twice, sid) = has(sessionStore, sid)
               /\ \A other \in Sids \ {sid} :
                    /\ has(twice, other) = has(sessionStore, other)
                    /\ get(twice, other) = get(sessionStore, other)
               /\ has(sessionStore, sid) =>
                    /\ ~isActive(twice, sid)
                    /\ get(twice, sid) =
                         [get(once, sid) EXCEPT !.last_active = t2]
                    /\ (t2 = now => twice = once)
               /\ ~has(sessionStore, sid) =>
                    /\ once = sessionStore
                    /\ twice = sessionStore]_vars

\* C33 as stated: a second complete(s), whenever it is made, leaves the
\* ledger exactly as the first one left it.
C33_CompleteIdempotent ==
  [][\A sid \in Sids :
        StoreComplete(sid) =>
          \A t2 \in now..MaxClock :
            complete(sessionStore', sid, t2) = sessionStore']_vars

\* Session s1, created at time 0, was completed at time 1 and the clock has
\* moved on to 2: a second complete now would stamp the record with 2.
C33_Witness ==
  /\ has(sessionStore, "s1")
  /\ ~isActive(sessionStore, "s1")
  /\ getQuery(sessionStore, "s1") = NoQuery
  /\ get(sessionStore, "s1").created_at = 0
  /\ get(sessionStore, "s1").last_active = 1
  /\ now = 2

\* C34: when the stream of a root run ends, the session id reported in its
\* AgentResult and released by its cleanup is the id of the stream's first
\* init message (the root of the context built at that message), whatever
\* further init messages the stream carried, and no session of the ledger
\* keeps the handle of the run.
C34_FirstIdIsDurable ==
  [][\A i \in 1..MaxInv :
        (StreamEnd(i) /\ inv[i].sessionId # NoSid) =>
          /\ ret'.sid = inv[i].executionContext.rootSessionId
          /\ ~isActive(sessionStore', inv[i].executionContext.rootSessionId)
          /\ \A sid \in Sids : getQuery(sessionStore', sid) # i]_vars

\* What the code does: the id of the latest init message is the one
\* reported and released.
C34_LatestIdIsReleased ==
  [][\A i \in 1..MaxInv :
        (StreamEnd(i) /\ inv[i].sessionId # NoSid) =>
          /\ ret'.sid = inv[i].sessionId
          /\ ~isActive(sessionStore', inv[i].sessionId)
          /\ getQuery(sessionStore', inv[i].sessionId) = NoQuery
          /\ inv[i].sessionId \notin DOMAIN executionContexts']_vars

\* C35: the i-th entry of a batch result belongs to the i-th input task (it
\* carries that task's position, and it reports AGENT_NOT_FOUND exactly when
\* that task names an unknown agent); its id is the id given for the task
\* when that id is a non-empty string, and the positional label task-<i>,
\* with i the 0-based position, when the id is omitted or empty.
C35_EntryIds ==
  batch.pc = "done" =>
    \A k \in 1..Len(batch.tasks) :
      LET task  == batch.tasks[k]
          entry == batch.result.results[k]
      IN /\ Len(batch.result.results) = Len(batch.tasks)
         /\ entry.index = k - 1
         /\ (entry.error = "AGENT_NOT_FOUND") <=>
              (task.agent \notin RegisteredAgents)
         /\ entry.id = IF "id" \in DOMAIN task /\ task.id # ""
                       THEN task.id
                       ELSE IF k = 1 THEN "task-0"
                       ELSE IF k = 2 THEN "task-1"
                       ELSE IF k = 3 THEN "task-2"
                       ELSE "task-3"

\* C35 as stated: every id that is given, the empty string included, is the
\* id of the entry, and only an omitted id is replaced by the label.
C35_GivenIdKept ==
  batch.pc = "done" =>
    \A k \in 1..Len(batch.tasks) :
      /\ batch.result.results[k].index = k - 1
      /\ batch.result.results[k].id =
           IF "id" \in DOMAIN batch.tasks[k]
           THEN batch.tasks[k].id
           ELSE "task-" \o decimal(k - 1)

\* A finished batch of two tasks, the first given the empty id and the
\* second given none: the entries are labelled task-0 and task-1.
C35_Witness ==
  /\ batch.pc = "done"
  /\ Len(batch.tasks) = 2
  /\ "id" \in DOMAIN batch.tasks[1]
  /\ batch.tasks[1].id = ""
  /\ "id" \notin DOMAIN batch.tasks[2]
  /\ batch.result.results[1].id = "task-0"
  /\ batch.result.results[2].id = "task-1"

\* Invocation j holds session s: j runs under s, and the record of s is
\* active with the handle of j retained.
Holds(j, s) ==
  /\ inv[j].pc = "running"
  /\ inv[j].sessionId = s
  /\ isActive(sessionStore, s)
  /\ getQuery(sessionStore, s) = j

\* C36: a completion made on behalf of one execution (the cleanup of another
\* invocation whose stream ends or throws, or the complete of a cancel that
\* read another invocation's handle) leaves the record of a session held by
\* invocation j active, with the handle of j retained.
C36_CompletionScoped ==
  [][\A j \in 1..MaxInv, s \in Sids :
        (/\ Holds(j, s)
         /\ \/ \E i \in 1..MaxInv \ {j} : StreamEnd(i) \/ StreamThrow(i, "boom")
            \/ \E c \in 1..MaxCancels :
                  cancels[c].query # j /\ CancelResume(c)) =>
           /\ isActive(sessionStore', s)
           /\ getQuery(sessionStore', s) = j]_vars

\* What the code guarantees: a completion made on behalf of an execution of
\* another session leaves the record held by j as it was.
C36_OtherSessionsUntouched ==
  [][\A j \in 1..MaxInv, s \in Sids :
        (/\ Holds(j, s)
         /\ \/ \E i \in 1..MaxInv \ {j} :
                  /\ inv[i].sessionId # s
                  /\ StreamEnd(i) \/ StreamThrow(i, "boom")
            \/ \E c \in 1..MaxCancels :
                  cancels[c].sid # s /\ CancelResume(c)) =>
           /\ isActive(sessionStore', s)
           /\ getQuery(sessionStore', s) = j]_vars

\* C37: the planner, whose definition file is in the project directory
\* throughout, is resolved by every getOrThrow of a run_agent call, also by
\* one made while a list-tools request is reloading the registry.
C37_AlwaysResolvable ==
  [][ResolveAgent("planner") =>
        /\ ret'.val = TRUE
        /\ ret'.code = ""]_vars

\* What the code guarantees: the planner is resolved by every getOrThrow
\* made while no reload is in progress.
C37_ResolvableWhenLoaded ==
  [][(reload.pc = "idle" /\ ResolveAgent("planner")) =>
        /\ ret'.val = TRUE
        /\ ret'.code = ""]_vars

\* C38: a run whose stream ends without throwing and without a result
\* message of either kind, be it after a cancel of its session or not,
\* returns success = true with the summary "No result", no error, and the
\* session id of its init message.
C38_NoTerminalEvent ==
  [][\A i \in 1..MaxInv :
        (/\ StreamEnd(i)
         /\ ~inv[i].seen.success
         /\ ~inv[i].seen.failure) =>
           /\ ret'.op = "run_agent"
           /\ ret'.val = TRUE
           /\ ret'.code = "No result"
           /\ ret'.sid = inv[i].sessionId
           /\ agentResult(inv[i]).error = NoError
           /\ inv'[i].pc = "free"]_vars

\* The run of s1 has returned success with "No result" while a cancel of s1
\* that interrupted it has yet to resume.
C38_Witness ==
  /\ ret.op = "run_agent"
  /\ ret.val
  /\ ret.code = "No result"
  /\ ret.sid = "s1"
  /\ cancels[1].pc # "idle"
  /\ cancels[1].sid = "s1"
  /\ InFlight = {}

\* The session ids of the records list() returns for the agent.
ListedFor(st, agent) ==
  LET out == list(st, [agent |-> agent, active_only |-> FALSE])
  IN {out[k].session_id : k \in 1..Len(out)}

\* C39: when a run_agent call of agent B resumes session s, whose record was
\* saved by agent A, the save at the init message makes B the agent of the
\* record: list({agent: B}) returns s and list of no other agent does, while
\* initial_task and created_at of the record stay as they were.
C39_ResumeOverwritesAgent ==
  [][\A i \in 1..MaxInv, s \in Sids :
        (/\ OnInit(i)
         /\ EngineSessionId(i) = s
         /\ has(sessionStore, s)) =>
           /\ get(sessionStore', s).agent = inv[i].agent
           /\ get(sessionStore', s).initial_task =
                get(sessionStore, s).initial_task
           /\ get(sessionStore', s).created_at =
                get(sessionStore, s).created_at
           /\ s \in ListedFor(sessionStore', inv[i].agent)
           /\ \A a \in AgentNames \ {inv[i].agent} :
                s \notin ListedFor(sessionStore', a)]_vars

\* Session s1, created at time 0 with task t1, is being resumed at time 2 by
\* the coder with task t2: it is listed for the coder and not for the
\* planner, and its initial task is still t1.
C39_Witness ==
  /\ \E i \in 1..MaxInv :
        /\ inv[i].pc = "running"
        /\ inv[i].sessionId = "s1"
        /\ inv[i].resume = "s1"
        /\ inv[i].agent = "coder"
        /\ inv[i].task = "t2"
  /\ get(sessionStore, "s1").agent = "coder"
  /\ get(sessionStore, "s1").initial_task = "t1"
  /\ get(sessionStore, "s1").created_at = 0
  /\ get(sessionStore, "s1").last_active = 2
  /\ "s1" \in ListedFor(sessionStore, "coder")
  /\ "s1" \notin ListedFor(sessionStore, "planner")
=============================================================================
